---- MODULE Spec2Model ----
(***************************************************************************)
(* Model of the resilient multi-endpoint API client of the music player    *)
(* (src/unnamed/part_001, lines 1-503: the variant with the endpoint pool, *)
(* the sticky-best endpoint, the user override, the tiered races and the   *)
(* facade operations built on fetchWithFailover).                          *)
(*                                                                         *)
(* A step of the model is one run-to-completion step of the JavaScript     *)
(* event loop: a call of an exported function up to its first await, or a  *)
(* network/timer event of one attempt together with the chain of promise   *)
(* continuations it triggers (the attempt's own continuation, promiseAny's *)
(* resolve/reject, the continuation of fetchWithFailover after its await   *)
(* and the facade's try/catch around it).  The continuations of one chain  *)
(* read shared state only in the attempt's own continuation and in the     *)
(* catch block of the sticky path, which are modelled at the event.        *)
(***************************************************************************)
EXTENDS Integers, Sequences, FiniteSets, TLC

(***************************************************************************)
(* Bounds.  The source pool has 11 mirrors; the model keeps the first      *)
(* PoolSize of them.                                                       *)
(***************************************************************************)
PoolSize == 3
\* Facade calls issued in one run.
NumCalls == 2

Requests == 1..NumCalls

\* part_001:5-17
RAW_API_BASES ==
  << "https://music.cyrilstudio.top",
     "https://ncmapi.redd.one",
     "https://music.jw1.dev",
     "https://netease.pub",
     "https://api.music.areschang.top",
     "https://music.qier296.top",
     "https://api.wengqianshan.com",
     "https://music-api.gdstudio.xyz",
     "https://netease-cloud-music-api-anon.vercel.app",
     "https://music-api.heheda.top",
     "https://api.paugram.com/netease" >>

\* part_001:132.  shuffle() returns a permutation of its argument; endpoints
\* are interchangeable, so the pool is taken in one fixed order and cut to
\* PoolSize members.
API_BASES == SubSeq(RAW_API_BASES, 1, PoolSize)

PoolIdx == 1..Len(API_BASES)
Pool == {API_BASES[i] : i \in PoolIdx}

\* JavaScript null, and the values an `if (x)` takes as false.
Null == "null"
Truthy(x) == x \notin {Null, ""}

\* A URL outside the pool that the collaborator may pass to setApiSource.
CustomUrl == "https://custom.example"

\* Arguments of setApiSource explored: the empty string (clears the override),
\* a URL outside the pool, and a member of the pool.
OverrideChoices == {"", CustomUrl, API_BASES[1]}

\* Decoded payloads: the value of the top-level code field (NoCode: absent).
NoCode == "absent"
Codes == {NoCode, "200", "401"}

\* part_001:225, 242: `data.code && data.code !== 200`
CodeIsError(c) == c # NoCode /\ c # "200"

\* The facade operations built on fetchWithFailover (part_001:292-503).
\* fetchArtistSongsList is listed once per value of its `order` parameter.
AllOps ==
  { "fetchPlaylist", "fetchRecommendedPlaylists", "searchPlaylists",
    "searchSongs", "searchArtists", "fetchArtistTopSongs", "fetchArtistDetail",
    "fetchArtistSongsList_hot", "fetchArtistSongsList_time", "getAudioUrl",
    "fetchLyrics", "fetchComments" }

\* The operations whose calls are explored step by step.
Ops == {"fetchPlaylist", "searchSongs"}

\* A variant in which every catch block rethrows.
Rethrows_Every(o) == TRUE

\* `catch (e) { throw e; }` (part_001:297-299, 366-368); order 'hot' is
\* handed to fetchArtistTopSongs (384-386)
Rethrows(o) ==
  o \in {"fetchPlaylist", "fetchArtistTopSongs", "fetchArtistSongsList_hot"}

\* What the other catch blocks return: {} (part_001:377-379), the outer link
\* (433-436), [] (308-310, 327-329, 339-341, 355-357, 407-410, 488-490, 499-501)
Fallback(o) ==
  IF o = "fetchArtistDetail" THEN "emptyObject"
  ELSE IF o = "getAudioUrl" THEN "outerLink"
  ELSE "emptyList"

\* part_001:267 and part_001:270 (the messages, in English)
ErrAllServers == "all music servers unresponsive"
ErrNoServer == "cannot connect to any music server"
\* part_001:194
ErrAllRejected == "All promises rejected"

(***************************************************************************)
(* JavaScript values handled by the facade and the cache.  Every value has *)
(* the same shape: its type t, the text s of a string, the items of an     *)
(* array and the properties of an object.  An item or an object is a track *)
(* of normalizeTrack (part_001:274-290) cut to two properties: id, which   *)
(* is always there, and fee, which is `s.fee` and may be undefined.        *)
(***************************************************************************)
Absent == "absent-property"
Undefined == "undefined"
NoProps == [id |-> Absent, fee |-> Absent]

JsNull == [t |-> "null", s |-> "", items |-> << >>, props |-> NoProps]
JsString(x) == [t |-> "string", s |-> x, items |-> << >>, props |-> NoProps]
JsArray(xs) == [t |-> "array", s |-> "", items |-> xs, props |-> NoProps]
JsObject(p) == [t |-> "object", s |-> "", items |-> << >>, props |-> p]

\* `if (v)`, part_001:104 and 113: null and the empty string are false,
\* every array and every object is true
JsTruthy(v) == v.t \in {"array", "object"} \/ (v.t = "string" /\ v.s # "")

\* Object.keys(o).length of an object (part_001:113): the properties that
\* are there, those holding undefined included
KeyCount(p) ==
  (IF p.id # Absent THEN 1 ELSE 0) + (IF p.fee # Absent THEN 1 ELSE 0)

\* Reading property f of an object: one that is not there reads undefined
ReadProp(p, f) == IF p[f] = Absent THEN Undefined ELSE p[f]

\* Two values a reader cannot tell apart by type, text, length and the
\* properties it reads
SameProps(p, q) == \A f \in {"id", "fee"} : ReadProp(p, f) = ReadProp(q, f)
SameValue(v, w) ==
  /\ v.t = w.t /\ v.s = w.s
  /\ Len(v.items) = Len(w.items)
  /\ \A i \in 1..Len(v.items) : SameProps(v.items[i], w.items[i])
  /\ SameProps(v.props, w.props)

\* JSON.stringify followed by JSON.parse (part_001:60, 85): a property that
\* holds undefined is left out of the text, so it is not there afterwards
JsonProps(p) == [f \in {"id", "fee"} |-> IF p[f] = Undefined THEN Absent ELSE p[f]]
JsonRoundTrip(v) ==
  [v EXCEPT !.items = [i \in 1..Len(v.items) |-> JsonProps(v.items[i])],
            !.props = JsonProps(v.props)]

(***************************************************************************)
(* The cache (part_001:19-118).  localStorage is a list of entries in the  *)
(* order of localStorage.key(i); an entry is a key and the stored text.    *)
(* A key is the pair of a prefix and the rest of the key, so that          *)
(* startsWith(CACHE_PREFIX) is a test of the first member.                 *)
(***************************************************************************)
\* part_001:20
CACHE_PREFIX == "vinyl_cache_"

\* part_001:21-27, in milliseconds
TTL_CONFIG ==
  [ LYRICS   |-> 1000 * 60 * 60 * 24 * 7,
    PLAYLIST |-> 1000 * 60 * 30,
    URL      |-> 1000 * 60 * 15,
    COMMON   |-> 1000 * 60 * 10,
    ARTIST   |-> 1000 * 60 * 60 * 24 ]

\* part_001:59, 80: `CACHE_PREFIX + key`
FullKey(key) == << CACHE_PREFIX, key >>
\* part_001:37: `key.startsWith(CACHE_PREFIX)`
StartsWithPrefix(k) == k[1] = CACHE_PREFIX

\* The stored texts.  "entry" is the text JSON.stringify writes at line 60;
\* "garbage" is a text JSON.parse throws on; "empty" is the empty string,
\* which JSON.parse throws on too and which `if (item)` takes as false.
Payload(data, expiry) == [form |-> "entry", data |-> JsonRoundTrip(data), expiry |-> expiry]
Garbage == [form |-> "garbage", data |-> JsNull, expiry |-> 0]
EmptyText == [form |-> "empty", data |-> JsNull, expiry |-> 0]

\* JSON.parse throws on the text (part_001:41, 85)
ParseFails(item) == item.form # "entry"

\* localStorage.getItem, setItem and removeItem on the list of entries
HasKey(store, k) == \E i \in 1..Len(store) : store[i].key = k
IndexOf(store, k) == CHOOSE i \in 1..Len(store) : store[i].key = k
\* getItem gives null for a key that is not there
NoItem == [form |-> "none", data |-> JsNull, expiry |-> 0]
GetItem(store, k) == IF HasKey(store, k) THEN store[IndexOf(store, k)].item ELSE NoItem
RemoveAt(store, i) == SubSeq(store, 1, i - 1) \o SubSeq(store, i + 1, Len(store))
RemoveItem(store, k) == IF HasKey(store, k) THEN RemoveAt(store, IndexOf(store, k)) ELSE store
\* A variant of setItem that leaves the text of a key that is there.
SetItem_KeepsFirst(store, k, item) ==
  IF HasKey(store, k) THEN store ELSE Append(store, [key |-> k, item |-> item])

SetItem(store, k, item) ==
  IF HasKey(store, k)
    THEN [store EXCEPT ![IndexOf(store, k)].item = item]
    ELSE Append(store, [key |-> k, item |-> item])

\* part_001:35-51: the loop of pruneCache from index i on (i counts from 1).
\* removeItem moves the entries behind the removed one down by one place,
\* and the loop goes on at i + 1 all the same.
RECURSIVE PruneFrom(_, _, _)
PruneFrom(store, i, t) ==
  IF i > Len(store) THEN store
  ELSE LET e == store[i] IN
    IF ~StartsWithPrefix(e.key) THEN PruneFrom(store, i + 1, t)
    ELSE IF e.item.form = "empty" THEN PruneFrom(store, i + 1, t)
    ELSE IF ParseFails(e.item) THEN PruneFrom(RemoveAt(store, i), i + 1, t)
    ELSE IF t > e.item.expiry THEN PruneFrom(RemoveAt(store, i), i + 1, t)
    ELSE PruneFrom(store, i + 1, t)

\* A variant of pruneCache that empties the cache: every entry under the
\* cache prefix is removed.
pruneCache_RemovesEveryEntry(store, t) ==
  LET Foreign(e) == ~StartsWithPrefix(e.key) IN SelectSeq(store, Foreign)

\* part_001:32-55
pruneCache(store, t) == PruneFrom(store, 1, t)

\* localStorage.setItem throws (QuotaExceededError) when the entry is new
\* and the storage is full.  The storage holds `cap` entries; a storage that
\* is disabled holds none.
SetItemThrows(store, k, cap) == ~HasKey(store, k) /\ Len(store) >= cap

\* What one run of setCache did: the store it leaves and the calls it made.
\* Mutant of setCache: the write is given up after the first failure.
setCache_NoRetry(store, key, data, ttl, t, cap) ==
  IF ~SetItemThrows(store, FullKey(key), cap)
    THEN [store |-> SetItem(store, FullKey(key), Payload(data, t + ttl)),
          log |-> << "setItem" >>, threw |-> FALSE]
    ELSE [store |-> store, log |-> << "setItem throws" >>, threw |-> FALSE]

\* part_001:58-76
setCache(store, key, data, ttl, t, cap) ==
  LET payload == Payload(data, t + ttl)
      pruned == pruneCache(store, t)
  IN IF ~SetItemThrows(store, FullKey(key), cap)
       THEN [store |-> SetItem(store, FullKey(key), payload),
             log |-> << "setItem" >>, threw |-> FALSE]
     ELSE IF ~SetItemThrows(pruned, FullKey(key), cap)
       THEN [store |-> SetItem(pruned, FullKey(key), payload),
             log |-> << "setItem throws", "pruneCache", "setItem" >>, threw |-> FALSE]
     ELSE [store |-> pruned,
           log |-> << "setItem throws", "pruneCache", "setItem throws" >>,
           threw |-> FALSE]

\* Mutant of getCache: an entry is never found.
getCache_AlwaysMisses(store, key, t) ==
  [store |-> store, value |-> JsNull, threw |-> FALSE]

\* Mutant of getCache: the expiry is not looked at.
getCache_NeverExpires(store, key, t) ==
  LET item == GetItem(store, FullKey(key))
  IN IF item.form = "entry"
       THEN [store |-> store, value |-> item.data, threw |-> FALSE]
       ELSE [store |-> store, value |-> JsNull, threw |-> FALSE]

\* part_001:79-94: the store getCache leaves and the value it returns
getCache(store, key, t) ==
  LET item == GetItem(store, FullKey(key))
  IN IF item.form \in {"none", "empty"}
       THEN [store |-> store, value |-> JsNull, threw |-> FALSE]
     ELSE IF ParseFails(item)
       THEN [store |-> store, value |-> JsNull, threw |-> FALSE]
     ELSE IF t > item.expiry
       THEN [store |-> RemoveItem(store, FullKey(key)), value |-> JsNull, threw |-> FALSE]
     ELSE [store |-> store, value |-> item.data, threw |-> FALSE]

\* Mutant of Cacheable: every value the fetcher returns is written.
Cacheable_Always(v) == TRUE

\* part_001:113: the test that guards setCache in withCache
Cacheable(v) ==
  /\ JsTruthy(v)
  /\ IF v.t = "array" THEN Len(v.items) > 0
     ELSE IF v.t = "string" THEN v.s # ""
     ELSE KeyCount(v.props) > 0

(***************************************************************************)
(* The requests of the facade and what the servers hold.  A request is an  *)
(* operation, its first argument (a playlist id, an artist id, a track id  *)
(* or the keywords) and, for fetchArtistSongsList, its limit.              *)
(***************************************************************************)
\* The first arguments explored.  All mirrors serve the same data: the
\* resource of "1" has one track, the resource of "2" has none.
Ids == {"1", "2"}
\* Artist "3" has one song too, and /artist/songs gives it without cover
\* art: no picUrl, and a pic_str that is no URL.
ServerHasItems(id) == id \in {"1", "3"}

\* A variant that asks for the details of every list of songs.
NeedsFullDetail_Always(id) == TRUE

\* part_001:395-398: some song of the list of artist id lacks cover art
NeedsFullDetail(id) == id = "3"

\* The argument of each operation in the runs that explore the endpoint
\* selection: a playlist with a track, and keywords that match nothing.
ArgOf(o) == IF o = "fetchPlaylist" THEN "1" ELSE "2"

\* part_001:383: the default of `limit`, and another value a caller passes
DefaultLimit == "50"
NoLimit == "none"

\* The first argument of cacheKey in each facade operation (part_001:293,
\* 304, 316, 334, 346, 362, 373, 385, 388, 415, 471, 495)
CacheKey(o, id, limit) ==
  CASE o = "fetchPlaylist" -> "playlist_" \o id
    [] o = "fetchRecommendedPlaylists" -> "recommend_playlists"
    [] o = "searchPlaylists" -> "search_playlist_" \o id
    [] o = "searchSongs" -> "search_song_" \o id
    [] o = "searchArtists" -> "search_artist_" \o id
    [] o = "fetchArtistTopSongs" -> "artist_top_" \o id
    [] o = "fetchArtistDetail" -> "artist_detail_" \o id
    [] o = "fetchArtistSongsList_hot" -> "artist_top_" \o id
    [] o = "fetchArtistSongsList_time" -> "artist_songs_" \o id \o "_" \o "time"
    [] o = "getAudioUrl" -> "audio_url_" \o id
    [] o = "fetchLyrics" -> "lyrics_" \o id
    [] o = "fetchComments" -> "comments_" \o id

\* The second argument of withCache in each facade operation
TtlOf(o) ==
  CASE o = "fetchPlaylist" -> TTL_CONFIG.PLAYLIST
    [] o = "fetchLyrics" -> TTL_CONFIG.LYRICS
    [] o = "getAudioUrl" -> TTL_CONFIG.URL
    [] o \in {"fetchArtistTopSongs", "fetchArtistDetail",
              "fetchArtistSongsList_hot", "fetchArtistSongsList_time"} -> TTL_CONFIG.ARTIST
    [] OTHER -> TTL_CONFIG.COMMON

\* The resource a request names: fetchArtistSongsList with order 'hot' is
\* fetchArtistTopSongs (part_001:384-386) and names no limit of its own.
Resource(o, id, limit) ==
  IF o = "fetchArtistSongsList_hot"
    THEN << "fetchArtistTopSongs", id, NoLimit >>
    ELSE << o, id, limit >>

\* part_001:274-290: the track normalizeTrack makes of the song the servers
\* hold; the song has no fee, so `fee: s.fee` holds undefined
TrackOf(id) == [id |-> "track of " \o id, fee |-> Undefined]
\* part_001:436
OuterLink(id) == "https://music.163.com/song/media/outer/url?id=" \o id \o ".mp3"

\* The payload with top-level code `code` carries the data of the resource;
\* a payload with an error code carries a message and no data.
HasData(id, code) == ServerHasItems(id) /\ ~CodeIsError(code)

\* The value the fetcher of operation o makes of a payload (part_001:296,
\* 307, 319-326, 337-338, 349-354, 365, 376, 391-406, 426-436, 474-487, 498)
ValueOfPayload(o, id, code) ==
  IF o = "getAudioUrl"
    THEN IF HasData(id, code) THEN JsString("https://m.example/" \o id \o ".mp3")
         ELSE JsString(OuterLink(id))
  ELSE IF o = "fetchArtistDetail"
    THEN IF HasData(id, code) THEN JsObject(TrackOf(id)) ELSE JsObject(NoProps)
  ELSE IF HasData(id, code) THEN JsArray(<< TrackOf(id) >>) ELSE JsArray(<< >>)

\* The value the catch block of operation o returns (see Fallback)
ValueOfFallback(o, id) ==
  IF Fallback(o) = "outerLink" THEN JsString(OuterLink(id))
  ELSE IF Fallback(o) = "emptyObject" THEN JsObject(NoProps)
  ELSE JsArray(<< >>)

(***************************************************************************)
(* normalizeTrack (part_001:274-290) and the album of its argument.  A     *)
(* property value is a string, a number or undefined; the text of a string *)
(* is kept in pieces, so that its beginning can be tested.                 *)
(***************************************************************************)
Str(chunks) == [t |-> "string", chunks |-> chunks]
Num(digits) == [t |-> "number", chunks |-> << digits >>]
Undef == [t |-> "undefined", chunks |-> << >>]

\* `x || y`: undefined, the empty string and 0 are false
IsTruthy(v) ==
  \/ v.t = "string" /\ v.chunks # << >>
  \/ v.t = "number" /\ v.chunks # << "0" >>

\* part_001:284: al.pic_str.startsWith('http')
StartsWithHttp(v) == v.chunks # << >> /\ v.chunks[1] = "http"

\* An album object with its two picture properties, and the album property
\* that is not there (undefined)
Album(picUrl, pic_str) == [there |-> TRUE, picUrl |-> picUrl, pic_str |-> pic_str]
NoAlbum == [there |-> FALSE, picUrl |-> Undef, pic_str |-> Undef]

\* part_001:284
CoverOf(al) ==
  IF IsTruthy(al.picUrl) THEN al.picUrl
  ELSE IF al.pic_str.t = "string" /\ StartsWithHttp(al.pic_str) THEN al.pic_str
  ELSE Str(<< >>)

\* part_001:275-286: `al` and the al property of the result, cut to the two
\* picture properties.  Every property read is a read of an object (s, or
\* s.al, s.album or {}), so no expression of the function throws.
normalizeTrack(s) ==
  LET al == IF s.al.there THEN s.al
            ELSE IF s.album.there THEN s.album
            ELSE Album(Undef, Undef)
  IN [picUrl |-> CoverOf(al), pic_str |-> al.pic_str]

\* The songs explored.  picUrl: not there, empty, a URL, a number.  pic_str:
\* not there, empty, a numeric id as a string and as a number, URLs with
\* http, https and ftp, and texts that begin with "http" and are no URL.
PicUrls == {Undef, Str(<< >>), Str(<< "http", "://p/q.jpg" >>), Num("109951")}
PicStrs ==
  { Undef, Str(<< >>), Str(<< "12345" >>), Num("12345"),
    Str(<< "http", "://x/y.jpg" >>), Str(<< "http", "s://x/y.jpg" >>),
    Str(<< "ftp://x/y.jpg" >>), Str(<< "http" >>), Str(<< "http", "_12345" >>) }
Albums == {Album(p, q) : p \in PicUrls, q \in PicStrs}
Songs ==
  {[al |-> a, album |-> NoAlbum] : a \in Albums}
  \cup {[al |-> NoAlbum, album |-> a] : a \in Albums}
  \cup {[al |-> NoAlbum, album |-> NoAlbum]}
  \cup {[al |-> Album(Str(<< >>), Str(<< "12345" >>)), album |-> a] : a \in Albums}

\* No song was normalized: the state of the runs that explore other parts
NoSong == [al |-> NoAlbum, album |-> NoAlbum]
NotNormalized == [picUrl |-> Undef, pic_str |-> Num("-1")]

VARIABLES
  customApiBase,    \* part_001:135
  currentBestBase,  \* part_001:134
  calls,            \* per facade call: the state of its fetchWithFailover
  localStorage,     \* the entries of window.localStorage, in key(i) order
  capacity,         \* the number of entries the storage has room for
  now,              \* Date.now(), in milliseconds since the page was loaded
  cacheOp,          \* the last run of getCache, setCache or pruneCache
  written,          \* per key, the last setCache that stored its entry
  lrc,              \* the text data.lrc.lyric of a /lyric payload, line by line
  tlyric,           \* the text data.tlyric.lyric of that payload, line by line
  lyrics,           \* what the fetcher of fetchLyrics makes of the payload
  song,             \* a song object of a payload, the argument of normalizeTrack
  track,            \* the album of the track normalizeTrack makes of the song
  array,            \* part_001:124: the array of shuffle, returned at line 129
  idx,              \* part_001:125: the loop variable i of shuffle (0: returned)
  source,           \* the value the last call of getCurrentApiSource returned
  playlist,         \* App.tsx:13: the ids of the tracks of the playlist
  currentIndex,     \* App.tsx:14
  isLoading,        \* App.tsx:15: the loader is rendered in place of the player
  isPlaying,        \* App.tsx:18
  uiLyrics,         \* App.tsx:24: the track whose lyrics are shown (0: none)
  uiComments,       \* App.tsx:25: the track whose comments are shown (0: none)
  errorCount,       \* App.tsx:33
  audioSrc,         \* App.tsx:94: the track whose URL is the src of the audio element
  loadingTrackRef,  \* App.tsx:38
  effects,          \* the runs of the track-change effect whose promises are pending
  timers,           \* App.tsx:172, 182: the pending timeouts, in the order they fire
  audioState        \* the media element: "empty", "loading", "ready" or "error"

lyricVars == << lrc, tlyric, lyrics >>
trackVars == << song, track >>
shuffleVars == << array, idx >>
playerVars ==
  << playlist, currentIndex, isLoading, isPlaying, uiLyrics, uiComments, errorCount,
     audioSrc, loadingTrackRef, effects, timers, audioState >>
vars ==
  << customApiBase, currentBestBase, calls, localStorage, capacity, now, cacheOp, written,
     lrc, tlyric, lyrics, song, track, array, idx, source, playlist, currentIndex,
     isLoading, isPlaying, uiLyrics, uiComments, errorCount, audioSrc, loadingTrackRef,
     effects, timers, audioState >>

(***************************************************************************)
(* Promises and attempts.                                                  *)
(***************************************************************************)
\* A promise: pending, fulfilled with the payload `code` decoded from the
\* response of `base`, or rejected with the error message `code`.
NoPromise == [state |-> "none", base |-> Null, code |-> NoCode]
Pending == [state |-> "pending", base |-> Null, code |-> NoCode]
Fulfilled(b, c) == [state |-> "fulfilled", base |-> b, code |-> c]
Rejected(msg) == [state |-> "rejected", base |-> Null, code |-> msg]

\* Mutant of PromiseSettle: a settled promise takes a later value too.
PromiseSettle_Overwrites(p, v) == v

\* resolve/reject of `new Promise` (part_001:182): only a pending promise
\* takes the value; later calls of resolve or reject are ignored.
PromiseSettle(p, v) == IF p.state = "pending" THEN v ELSE p

\* An attempt is one fetchWithTimeout + res.json() on one base.  phase:
\*   "fetch"  fetch() pending, the abort timer armed      (part_001:170-172)
\*   "body"   fetch() resolved with res.ok, the timer cleared (173), and
\*            res.json() pending                          (211, 224, 241, 260)
\*   "ok"     the attempt returned its data
\*   "fail"   the attempt threw
NoAttempt == [base |-> Null, phase |-> "none"]
Attempt(b) == [base |-> b, phase |-> "fetch"]

\* part_001:233, 252, 254: the size of the tier-2 race.  The source races the
\* first 6 of its 11 mirrors; the model keeps that share of its pool.
TierSize == (PoolSize + 1) \div 2

\* part_001:233 and part_001:254: slice(0, 6) and slice(6)
Tier2Idx == {i \in PoolIdx : i <= TierSize}
Tier3Idx == {i \in PoolIdx : i > TierSize}
TierOf(i) == IF i \in Tier2Idx THEN "race2" ELSE "race3"

\* step, first and prev serve the fetcher that calls fetchWithFailover
\* twice (part_001:390, 402): step tells which of the two calls is running,
\* first is the settled promise of the first one, and prev holds the race
\* attempts of the first one that are still in flight.
InitCall ==
  [ pc |-> "idle", op |-> "none", id |-> "none", limit |-> NoLimit, value |-> JsNull,
    ov |-> NoAttempt, st |-> NoAttempt,
    att |-> [i \in PoolIdx |-> "none"],
    t2 |-> NoPromise, t3 |-> NoPromise,
    ret |-> NoPromise, outcome |-> NoPromise,
    step |-> 1, first |-> NoPromise, prev |-> [i \in PoolIdx |-> "none"] ]

InFlight(att) == [i \in PoolIdx |-> IF att[i] \in {"fetch", "body"} THEN att[i] ELSE "none"]

\* Of a call whose result was delivered and whose caller has issued its next
\* call, only the attempts still in flight are kept: nothing cancels them
\* (part_001:190, 236), and nothing refers to the rest any more.
Retire(c) ==
  [InitCall EXCEPT !.pc = "retired",
                   !.att = [i \in PoolIdx |->
                              IF c.att[i] \in {"fetch", "body"} THEN c.att[i] ELSE "none"],
                   !.prev = c.prev]
Finished(c, phase) == IF c.pc = "retired" THEN "none" ELSE phase

\* No /lyric payload has arrived.
NotFetched == << [time |-> 0 - 1, text |-> << >>, duration |-> 0, trans |-> << >>,
                  isContinuation |-> FALSE] >>
NoLyrics == lrc = << >> /\ tlyric = << >> /\ lyrics = NotFetched
NoTrack == song = NoSong /\ track = NotNormalized
\* part_001:132: shuffle has returned, and the pool is its result
Shuffled == array = API_BASES /\ idx = 0
\* getCurrentApiSource has not been called.
NotAsked == source = Null
\* App.tsx:12-40: the App component is not mounted; its state and refs hold
\* the initial values of their useState and useRef.
NoPlayer ==
  /\ playlist = << >>
  /\ currentIndex = 0
  /\ isLoading = TRUE
  /\ isPlaying = FALSE
  /\ uiLyrics = 0
  /\ uiComments = 0
  /\ errorCount = 0
  /\ audioSrc = 0
  /\ loadingTrackRef = 0
  /\ effects = {}
  /\ timers = << >>
  /\ audioState = "empty"

\* A storage with room for the entry of every call of a run.  (In Init the
\* storage is disabled, so that every call of Spec and SpecAuto reaches the
\* network; the cache at work is explored by SpecFacade and SpecCache.)
Roomy == NumCalls + 1

\* No cache operation has run yet.
NoCacheOp ==
  [op |-> "none", key |-> "", found |-> NoItem, value |-> JsNull, log |-> << >>,
   threw |-> FALSE, at |-> 0]

\* The record of a run of getCache, setCache or pruneCache at time t: the
\* key, the text found under the key before the run, the value read or
\* written, the calls made, and whether an exception left the function.
CacheOp(op, key, store, value, log, threw, t) ==
  [op |-> op, key |-> key, found |-> GetItem(store, FullKey(key)), value |-> value,
   log |-> log, threw |-> threw, at |-> t]

Init ==
  /\ customApiBase = Null
  /\ currentBestBase = Null
  /\ calls = [r \in Requests |-> InitCall]
  /\ localStorage = << >>
  /\ capacity = 0
  /\ now = 0
  /\ cacheOp = NoCacheOp
  /\ written = {}
  /\ NoLyrics
  /\ NotAsked
  /\ NoPlayer
  /\ NoTrack
  /\ Shuffled

(***************************************************************************)
(* The facade's try/catch around fetchWithFailover, once `ret` is settled. *)
(***************************************************************************)
\* The promise of facade operation o, from the settled promise of its
\* fetchWithFailover: a value made from the payload, the error rethrown, or
\* the fallback value of the catch block.
FacadeResult(o, ret) ==
  IF ret.state = "fulfilled" THEN Fulfilled(ret.base, ret.code)
  ELSE IF Rethrows(o) THEN Rejected(ret.code)
  ELSE Fulfilled(Null, Fallback(o))

\* The value that promise is fulfilled with (null when it is rejected)
FacadeValue(o, id, ret) ==
  IF ret.state = "fulfilled" THEN ValueOfPayload(o, id, ret.code)
  ELSE IF Rethrows(o) THEN JsNull
  ELSE ValueOfFallback(o, id)

\* part_001:292-503: the fetcher of the call's facade operation
Facade(c) ==
  [c EXCEPT !.outcome = FacadeResult(c.op, c.ret),
            !.value = FacadeValue(c.op, c.id, c.ret)]

\* `throw new Error(...)` of fetchWithFailover (part_001:267, 270)
Throw(c, msg) == Facade([c EXCEPT !.pc = "done", !.ret = Rejected(msg)])

(***************************************************************************)
(* fetchWithFailover, block by block.  Each operator takes the call record *)
(* and gives the record after the block ran up to its next await.          *)
(***************************************************************************)
\* part_001:254-264: the tier-3 race is started
StartRace3(c) ==
  [c EXCEPT !.pc = "race3",
            !.att = [i \in PoolIdx |-> IF i \in Tier3Idx THEN "fetch" ELSE @[i]],
            !.t3 = Pending]

\* part_001:233-249: the tier-2 race is started
StartRace2(c) ==
  [c EXCEPT !.pc = "race2",
            !.att = [i \in PoolIdx |-> IF i \in Tier2Idx THEN "fetch" ELSE @[i]],
            !.t2 = Pending]

\* part_001:219-222: the sticky-best attempt, or straight to the race
StartSticky(c, best) ==
  IF Truthy(best)
    THEN [c EXCEPT !.pc = "sticky", !.st = Attempt(best)]
    ELSE StartRace2(c)

\* Mutant of StartOverride: the override is not consulted.
StartOverride_SkipsOverride(c, custom, best) == StartSticky(c, best)

\* part_001:201-209: the override attempt, or straight to the sticky path
StartOverride(c, custom, best) ==
  IF Truthy(custom)
    THEN [c EXCEPT !.pc = "override", !.ov = Attempt(custom)]
    ELSE StartSticky(c, best)

\* part_001:244-246 and 261: the value a succeeding race attempt on `base`
\* leaves in currentBestBase
RaceWinBest(custom, best, base) ==
  IF ~Truthy(best) /\ ~Truthy(custom) THEN base ELSE best

\* part_001:391-402: the fetcher of fetchArtistSongsList goes on to
\* /song/detail when its first payload has songs and some song lacks cover
\* art
NeedsSecondFetch(c, code) ==
  /\ c.op = "fetchArtistSongsList_time" /\ c.step = 1
  /\ HasData(c.id, code) /\ NeedsFullDetail(c.id)

\* part_001:244-246, 261: the value of currentBestBase when a call of
\* fetchWithFailover returns the payload of base b: a race attempt has just
\* stored its base if nothing was stored
BestAtReturn(c, b) ==
  IF c.pc \in {"race2", "race3"}
    THEN RaceWinBest(customApiBase, currentBestBase, b)
    ELSE currentBestBase

\* part_001:401-402: the second call of fetchWithFailover runs up to its
\* first await; the race attempts of the first call go on
StartDetail(c, b, code) ==
  StartOverride([c EXCEPT !.step = 2, !.first = Fulfilled(b, code),
                          !.prev = InFlight(c.att),
                          !.ov = NoAttempt, !.st = NoAttempt,
                          !.att = [i \in PoolIdx |-> "none"],
                          !.t2 = NoPromise, !.t3 = NoPromise],
                customApiBase, BestAtReturn(c, b))

\* `return data` of fetchWithFailover (part_001:212, 226, 250, 265), and
\* the fetcher that awaited it
Return(c, b, code) ==
  IF NeedsSecondFetch(c, code) THEN StartDetail(c, b, code)
  ELSE Facade([c EXCEPT !.pc = "done", !.ret = Fulfilled(b, code)])

\* Mutant of AfterRace2: the backup race of lines 252-269 is left out.
AfterRace2_NoBackup(c) ==
  IF c.t2.state = "fulfilled" THEN Return(c, c.t2.base, c.t2.code)
  ELSE Throw(c, ErrNoServer)

\* part_001:251-271: the continuation after the tier-2 promiseAny settled
AfterRace2(c) ==
  IF c.t2.state = "fulfilled" THEN Return(c, c.t2.base, c.t2.code)
  ELSE IF Len(array) > TierSize THEN StartRace3(c)
  ELSE Throw(c, ErrNoServer)

\* Mutant of AfterRace3: the inner try/catch is left out, so that the
\* rejection of promiseAny propagates.
AfterRace3_Propagates(c) ==
  IF c.t3.state = "fulfilled" THEN Return(c, c.t3.base, c.t3.code)
  ELSE Throw(c, c.t3.code)

\* part_001:265-268: the continuation after the tier-3 promiseAny settled
AfterRace3(c) ==
  IF c.t3.state = "fulfilled" THEN Return(c, c.t3.base, c.t3.code)
  ELSE Throw(c, ErrAllServers)

\* part_001:213-215: the catch of the override block swallows the error of
\* the attempt, and the function goes on at line 219
OverrideCatch(c, best, err) == StartSticky([c EXCEPT !.ov.phase = "fail"], best)

\* Mutant of StickyCatchBest: the `!customApiBase` guard is left out.
StickyCatchBest_AlwaysClears(custom, best) == Null

\* part_001:227-229: the catch of the sticky block; the value it leaves in
\* currentBestBase
StickyCatchBest(custom, best) == IF Truthy(custom) THEN best ELSE Null

\* part_001:227-233: the catch of the sticky block swallows the error of the
\* attempt, and the function goes on at line 233
StickyCatch(c, err) == StartRace2([c EXCEPT !.st.phase = "fail"])

\* part_001:225 (sticky), 242 (tier 2): the payload is checked; the override
\* block (211-212) and the tier-3 attempts (260-262) return it unchecked
ChecksCode(tier) == tier \in {"sticky", "race2"}
Accepts(tier, code) == ~(ChecksCode(tier) /\ CodeIsError(code))

\* Mutant of PromiseAnyReject: the race rejects at the first rejection.
PromiseAnyReject_AtFirst(p, rejectedCount, n) ==
  IF rejectedCount >= 1 THEN PromiseSettle(p, Rejected(ErrAllRejected)) ELSE p

\* part_001:187-196: promiseAny.  `.then(resolve)` of an attempt that
\* fulfilled, and the catch handler of an attempt that rejected, where
\* rejectedCount counts this rejection and n is promises.length
PromiseAnyFulfil(p, v) == PromiseSettle(p, v)
PromiseAnyReject(p, rejectedCount, n) ==
  IF rejectedCount = n THEN PromiseSettle(p, Rejected(ErrAllRejected)) ELSE p

TierIdx(tier) == IF tier = "race2" THEN Tier2Idx ELSE Tier3Idx
TierPromise(c, tier) == IF tier = "race2" THEN c.t2 ELSE c.t3
WithTierPromise(c, tier, p) ==
  IF tier = "race2" THEN [c EXCEPT !.t2 = p] ELSE [c EXCEPT !.t3 = p]
RejectedCount(c, tier) == Cardinality({i \in TierIdx(tier) : c.att[i] = "fail"})

\* The await of fetchWithFailover on a race (part_001:236, 255) resumes when
\* the promise of the race goes from pending to settled.
Resume(before, c, tier) ==
  IF TierPromise(before, tier).state = "pending"
     /\ TierPromise(c, tier).state # "pending"
    THEN IF tier = "race2" THEN AfterRace2(c) ELSE AfterRace3(c)
    ELSE c

\* part_001:237-248, 256-263: a race attempt returns its data
RaceAttemptOk(c, i, code) ==
  LET tier == TierOf(i)
      c1 == [c EXCEPT !.att[i] = Finished(c, "ok")]
      c2 == WithTierPromise(c1, tier,
              PromiseAnyFulfil(TierPromise(c1, tier), Fulfilled(array[i], code)))
  IN Resume(c, c2, tier)

\* part_001:237-248, 256-263: a race attempt throws
RaceAttemptFail(c, i, err) ==
  LET tier == TierOf(i)
      c1 == [c EXCEPT !.att[i] = Finished(c, "fail")]
      c2 == WithTierPromise(c1, tier,
              PromiseAnyReject(TierPromise(c1, tier), RejectedCount(c1, tier),
                               Cardinality(TierIdx(tier))))
  IN Resume(c, c2, tier)

(***************************************************************************)
(* Actions.                                                                *)
(***************************************************************************)
\* part_001:138-141
SetApiSource(url) ==
  /\ customApiBase' = url
  /\ currentBestBase' = url
  /\ UNCHANGED << calls, localStorage, capacity, now, cacheOp, written, lyricVars, trackVars, shuffleVars, source, playerVars >>

\* The record of a setCache that stored the entry of `key` for request req
Stored(key, req, value, ttl, t) ==
  [key |-> key, req |-> req, value |-> value, ttl |-> ttl, at |-> t]
WrittenAfter(w, key, req, value, ttl, t, log) ==
  IF log[Len(log)] = "setItem"
    THEN {x \in w : x.key # key} \cup {Stored(key, req, value, ttl, t)}
    ELSE w

\* part_001:110-117: withCache after `await fetcher()`.  When the step has
\* settled the fetcher of call r with a value, the value is tested and
\* written; a fetcher that rejected rejects withCache at line 110.
AfterFetcher(r) ==
  LET c == calls'[r]
      key == CacheKey(c.op, c.id, c.limit)
  IN /\ IF calls[r].pc # "done" /\ c.pc = "done"
           /\ c.outcome.state = "fulfilled" /\ Cacheable(c.value)
          THEN LET w == setCache(localStorage, key, c.value, TtlOf(c.op), now, capacity)
               IN /\ localStorage' = w.store
                  /\ cacheOp' = CacheOp("set", key, localStorage, c.value, w.log,
                                        w.threw, now)
                  /\ written' = WrittenAfter(written, key, Resource(c.op, c.id, c.limit),
                                             c.value, TtlOf(c.op), now, w.log)
          ELSE UNCHANGED << localStorage, cacheOp, written >>
     /\ UNCHANGED << now, capacity, lyricVars, trackVars, shuffleVars, source, playerVars >>

\* A step of an attempt that settles no fetcher
NoCacheStep == UNCHANGED << localStorage, capacity, now, cacheOp, written, lyricVars, trackVars, shuffleVars, source, playerVars >>

\* part_001:97-110: a facade operation is called.  withCache reads the
\* cache; on a hit it returns the cached value (pc "cached"); on a miss
\* fetchWithFailover runs up to its first await (part_001:201-249).  Calls
\* are numbered in the order in which they are issued, and a call is issued
\* when the result of the call before it was delivered.
Call(r, o, id, limit) ==
  LET key == CacheKey(o, id, limit)
      g == getCache(localStorage, key, now)
      c == [calls[r] EXCEPT !.op = o, !.id = id, !.limit = limit]
  IN /\ calls[r].pc = "idle"
     /\ \A q \in Requests : q < r => calls[q].pc \in {"done", "cached", "retired"}
     /\ calls' = [q \in Requests |->
          IF q = r
            THEN IF JsTruthy(g.value)
                   THEN [c EXCEPT !.pc = "cached", !.value = g.value,
                                  !.outcome = Fulfilled(Null, "cached")]
                   ELSE StartOverride([c EXCEPT !.ret = Pending, !.outcome = Pending],
                                      customApiBase, currentBestBase)
            ELSE IF calls[q].pc \in {"done", "cached"} THEN Retire(calls[q]) ELSE calls[q]]
     /\ localStorage' = g.store
     /\ cacheOp' = CacheOp("get", key, localStorage, g.value, << >>, g.threw, now)
     /\ UNCHANGED << customApiBase, currentBestBase, capacity, now, written, lyricVars, trackVars, shuffleVars, source, playerVars >>

\* --- the override attempt (part_001:206-216) ---
\* part_001:170: the timer fires while fetch() is pending and aborts it
OverrideTimeout(r) ==
  /\ calls[r].pc = "override" /\ calls[r].ov.phase = "fetch"
  /\ calls' = [calls EXCEPT ![r] = OverrideCatch(@, currentBestBase, "AbortError")]
  /\ UNCHANGED << customApiBase, currentBestBase >>
  /\ AfterFetcher(r)

\* fetch() rejects, or res.ok is false (210), or res.json() rejects (211)
OverrideError(r) ==
  /\ calls[r].pc = "override" /\ calls[r].ov.phase \in {"fetch", "body"}
  /\ calls' = [calls EXCEPT ![r] = OverrideCatch(@, currentBestBase, "Error")]
  /\ UNCHANGED << customApiBase, currentBestBase >>
  /\ AfterFetcher(r)

\* part_001:172-174, 210-211: fetch() resolves with res.ok; the timer is cleared
OverrideResponse(r) ==
  /\ calls[r].pc = "override" /\ calls[r].ov.phase = "fetch"
  /\ calls' = [calls EXCEPT ![r].ov.phase = "body"]
  /\ UNCHANGED << customApiBase, currentBestBase >>
  /\ NoCacheStep

\* part_001:211-212: res.json() resolves with a payload
OverrideJson(r, code) ==
  /\ calls[r].pc = "override" /\ calls[r].ov.phase = "body"
  /\ calls' = [calls EXCEPT ![r] =
       IF Accepts("override", code)
         THEN Return([@ EXCEPT !.ov.phase = "ok"], @.ov.base, code)
         ELSE OverrideCatch(@, currentBestBase, "API Code")]
  /\ UNCHANGED << customApiBase, currentBestBase >>
  /\ AfterFetcher(r)

\* --- the sticky-best attempt (part_001:219-230) ---
StickyTimeout(r) ==
  /\ calls[r].pc = "sticky" /\ calls[r].st.phase = "fetch"
  /\ currentBestBase' = StickyCatchBest(customApiBase, currentBestBase)
  /\ calls' = [calls EXCEPT ![r] = StickyCatch(@, "AbortError")]
  /\ UNCHANGED customApiBase
  /\ AfterFetcher(r)

StickyError(r) ==
  /\ calls[r].pc = "sticky" /\ calls[r].st.phase \in {"fetch", "body"}
  /\ currentBestBase' = StickyCatchBest(customApiBase, currentBestBase)
  /\ calls' = [calls EXCEPT ![r] = StickyCatch(@, "Error")]
  /\ UNCHANGED customApiBase
  /\ AfterFetcher(r)

StickyResponse(r) ==
  /\ calls[r].pc = "sticky" /\ calls[r].st.phase = "fetch"
  /\ calls' = [calls EXCEPT ![r].st.phase = "body"]
  /\ UNCHANGED << customApiBase, currentBestBase >>
  /\ NoCacheStep

\* part_001:224-226
StickyJson(r, code) ==
  /\ calls[r].pc = "sticky" /\ calls[r].st.phase = "body"
  /\ IF Accepts("sticky", code)
       THEN /\ calls' = [calls EXCEPT ![r] =
                  Return([@ EXCEPT !.st.phase = "ok"], @.st.base, code)]
            /\ UNCHANGED currentBestBase
       ELSE /\ calls' = [calls EXCEPT ![r] = StickyCatch(@, "API Code")]
            /\ currentBestBase' = StickyCatchBest(customApiBase, currentBestBase)
  /\ UNCHANGED customApiBase
  /\ AfterFetcher(r)

\* --- the attempts of the races (part_001:237-248, 256-263) ---
\* An attempt goes on after its race settled: nothing cancels it.
RaceTimeout(r, i) ==
  /\ calls[r].att[i] = "fetch"
  /\ calls' = [calls EXCEPT ![r] = RaceAttemptFail(@, i, "AbortError")]
  /\ UNCHANGED << customApiBase, currentBestBase >>
  /\ AfterFetcher(r)

RaceError(r, i) ==
  /\ calls[r].att[i] \in {"fetch", "body"}
  /\ calls' = [calls EXCEPT ![r] = RaceAttemptFail(@, i, "Error")]
  /\ UNCHANGED << customApiBase, currentBestBase >>
  /\ AfterFetcher(r)

RaceResponse(r, i) ==
  /\ calls[r].att[i] = "fetch"
  /\ calls' = [calls EXCEPT ![r].att[i] = "body"]
  /\ UNCHANGED << customApiBase, currentBestBase >>
  /\ NoCacheStep

RaceJson(r, i, code) ==
  /\ calls[r].att[i] = "body"
  /\ IF Accepts(TierOf(i), code)
       THEN /\ currentBestBase' =
                  RaceWinBest(customApiBase, currentBestBase, array[i])
            /\ calls' = [calls EXCEPT ![r] = RaceAttemptOk(@, i, code)]
       ELSE /\ calls' = [calls EXCEPT ![r] = RaceAttemptFail(@, i, "API Error")]
            /\ UNCHANGED currentBestBase
  /\ UNCHANGED customApiBase
  /\ AfterFetcher(r)

Next ==
  \/ \E url \in OverrideChoices : SetApiSource(url)
  \/ \E r \in Requests, o \in Ops : Call(r, o, ArgOf(o), NoLimit)
  \/ \E r \in Requests : OverrideTimeout(r)
  \/ \E r \in Requests : OverrideError(r)
  \/ \E r \in Requests : OverrideResponse(r)
  \/ \E r \in Requests, code \in Codes : OverrideJson(r, code)
  \/ \E r \in Requests : StickyTimeout(r)
  \/ \E r \in Requests : StickyError(r)
  \/ \E r \in Requests : StickyResponse(r)
  \/ \E r \in Requests, code \in Codes : StickyJson(r, code)
  \/ \E r \in Requests, i \in PoolIdx : RaceTimeout(r, i)
  \/ \E r \in Requests, i \in PoolIdx : RaceError(r, i)
  \/ \E r \in Requests, i \in PoolIdx : RaceResponse(r, i)
  \/ \E r \in Requests, i \in PoolIdx, code \in Codes : RaceJson(r, i, code)

Spec == Init /\ [][Next]_vars

\* Automatic mode: the collaborator never calls setApiSource, so that no
\* override is ever active.
NextAuto ==
  \/ \E r \in Requests, o \in Ops : Call(r, o, ArgOf(o), NoLimit)
  \/ \E r \in Requests : StickyTimeout(r)
  \/ \E r \in Requests : StickyError(r)
  \/ \E r \in Requests : StickyResponse(r)
  \/ \E r \in Requests, code \in Codes : StickyJson(r, code)
  \/ \E r \in Requests, i \in PoolIdx : RaceTimeout(r, i)
  \/ \E r \in Requests, i \in PoolIdx : RaceError(r, i)
  \/ \E r \in Requests, i \in PoolIdx : RaceResponse(r, i)
  \/ \E r \in Requests, i \in PoolIdx, code \in Codes : RaceJson(r, i, code)

SpecAuto == Init /\ [][NextAuto]_vars

(***************************************************************************)
(* The facade with its cache over time.  The clock moves on, the storage   *)
(* may be short of room or disabled, and the operations called cover the   *)
(* kinds of values: a track list, a URL, and a list under a key made of    *)
(* several parameters.                                                     *)
(***************************************************************************)
\* The clock is watched at the instants that matter to the entries of the
\* store: the last instant at which an entry is valid, and the one after.
Horizon == TTL_CONFIG.PLAYLIST + 1
Instants(store) ==
  UNION {{store[i].item.expiry, store[i].item.expiry + 1} :
           i \in {j \in 1..Len(store) : store[j].item.form = "entry"}}

\* No call is pending and no attempt is in flight.
Quiet ==
  \A r \in Requests :
    /\ calls[r].pc \in {"idle", "done", "cached", "retired"}
    /\ \A i \in PoolIdx : calls[r].att[i] \notin {"fetch", "body"}
    /\ \A i \in PoolIdx : calls[r].prev[i] = "none"

\* Time passes.  Against the lifetime of an entry (minutes to days) a call
\* is short (seconds), so the clock is moved while the network is quiet.
Tick ==
  /\ Quiet
  /\ \E t \in Instants(localStorage) : t > now /\ t <= Horizon /\ now' = t
  /\ UNCHANGED << customApiBase, currentBestBase, calls, localStorage, capacity,
                  cacheOp, written, lyricVars, trackVars, shuffleVars, source, playerVars >>

\* The requests explored: a playlist with a track and one without, the URL
\* of a track, and the songs of an artist with two values of the limit.
FacadeRequests ==
  { << "fetchPlaylist", "1", NoLimit >>, << "fetchPlaylist", "2", NoLimit >>,
    << "getAudioUrl", "1", NoLimit >>,
    << "fetchArtistSongsList_time", "1", DefaultLimit >>,
    << "fetchArtistSongsList_time", "1", "10" >> }

\* The page is loaded with an empty storage that is disabled, has room for
\* one entry, or has room for all.
InitFacade ==
  /\ customApiBase = Null
  /\ currentBestBase = Null
  /\ calls = [r \in Requests |-> InitCall]
  /\ localStorage = << >>
  /\ capacity \in {0, 1, Roomy}
  /\ now = 0
  /\ cacheOp = NoCacheOp
  /\ written = {}
  /\ NoLyrics
  /\ NotAsked
  /\ NoPlayer
  /\ NoTrack
  /\ Shuffled

NextFacade ==
  \/ \E r \in Requests, q \in FacadeRequests : Quiet /\ Call(r, q[1], q[2], q[3])
  \/ Tick
  \/ \E r \in Requests : StickyTimeout(r)
  \/ \E r \in Requests : StickyError(r)
  \/ \E r \in Requests : StickyResponse(r)
  \/ \E r \in Requests, code \in Codes : StickyJson(r, code)
  \/ \E r \in Requests, i \in PoolIdx : RaceTimeout(r, i)
  \/ \E r \in Requests, i \in PoolIdx : RaceError(r, i)
  \/ \E r \in Requests, i \in PoolIdx : RaceResponse(r, i)
  \/ \E r \in Requests, i \in PoolIdx, code \in Codes : RaceJson(r, i, code)

SpecFacade == InitFacade /\ [][NextFacade]_vars

(***************************************************************************)
(* fetchArtistSongsList with order 'time' (part_001:383-412): the songs of *)
(* an artist whose songs come with cover art, of one without songs, and of *)
(* one whose songs come without cover art.  The storage has room.          *)
(***************************************************************************)
\* --- the race attempts of the first call of fetchWithFailover that are
\* still in flight while the second call runs (part_001:237-248, 256-263);
\* their race is settled, so they can only store the sticky-best ---
PrevTimeout(r, i) ==
  /\ calls[r].prev[i] = "fetch"
  /\ calls' = [calls EXCEPT ![r].prev[i] = "none"]
  /\ UNCHANGED << customApiBase, currentBestBase >>
  /\ NoCacheStep

PrevError(r, i) ==
  /\ calls[r].prev[i] \in {"fetch", "body"}
  /\ calls' = [calls EXCEPT ![r].prev[i] = "none"]
  /\ UNCHANGED << customApiBase, currentBestBase >>
  /\ NoCacheStep

PrevResponse(r, i) ==
  /\ calls[r].prev[i] = "fetch"
  /\ calls' = [calls EXCEPT ![r].prev[i] = "body"]
  /\ UNCHANGED << customApiBase, currentBestBase >>
  /\ NoCacheStep

PrevJson(r, i, code) ==
  /\ calls[r].prev[i] = "body"
  /\ calls' = [calls EXCEPT ![r].prev[i] = "none"]
  /\ currentBestBase' =
       IF Accepts(TierOf(i), code)
         THEN RaceWinBest(customApiBase, currentBestBase, array[i])
         ELSE currentBestBase
  /\ UNCHANGED customApiBase
  /\ NoCacheStep

ArtistRequests ==
  { << "fetchArtistSongsList_time", "1", DefaultLimit >>,
    << "fetchArtistSongsList_time", "2", DefaultLimit >>,
    << "fetchArtistSongsList_time", "3", DefaultLimit >> }

InitArtist ==
  /\ customApiBase = Null
  /\ currentBestBase = Null
  /\ calls = [r \in Requests |-> InitCall]
  /\ localStorage = << >>
  /\ capacity = Roomy
  /\ now = 0
  /\ cacheOp = NoCacheOp
  /\ written = {}
  /\ NoLyrics
  /\ NotAsked
  /\ NoPlayer
  /\ NoTrack
  /\ Shuffled

NextArtist ==
  \/ \E r \in Requests, q \in ArtistRequests : Quiet /\ Call(r, q[1], q[2], q[3])
  \/ \E r \in Requests : StickyTimeout(r)
  \/ \E r \in Requests : StickyError(r)
  \/ \E r \in Requests : StickyResponse(r)
  \/ \E r \in Requests, code \in Codes : StickyJson(r, code)
  \/ \E r \in Requests, i \in PoolIdx : RaceTimeout(r, i)
  \/ \E r \in Requests, i \in PoolIdx : RaceError(r, i)
  \/ \E r \in Requests, i \in PoolIdx : RaceResponse(r, i)
  \/ \E r \in Requests, i \in PoolIdx, code \in Codes : RaceJson(r, i, code)
  \/ \E r \in Requests, i \in PoolIdx : PrevTimeout(r, i)
  \/ \E r \in Requests, i \in PoolIdx : PrevError(r, i)
  \/ \E r \in Requests, i \in PoolIdx : PrevResponse(r, i)
  \/ \E r \in Requests, i \in PoolIdx, code \in Codes : PrevJson(r, i, code)

SpecArtist == InitArtist /\ [][NextArtist]_vars

(***************************************************************************)
(* Overlapping calls.  The collaborator issues a facade call while earlier *)
(* calls are still pending: their continuations interleave step by step on *)
(* the one thread, and share currentBestBase and the storage.  No override *)
(* is set.  The page has been used before: the storage holds an entry of   *)
(* an earlier session that has expired and is full with it or has room,    *)
(* and                                                                     *)
(* the sticky-best is empty or names the endpoint an earlier request       *)
(* stored.                                                                 *)
(***************************************************************************)
\* part_001:97-110 and 201-249, as in Call: withCache reads the cache, and
\* on a miss fetchWithFailover runs up to its first await.  Calls are
\* numbered in the order in which they are issued.
CallOverlapping(r, o, id, limit) ==
  LET key == CacheKey(o, id, limit)
      g == getCache(localStorage, key, now)
      c == [calls[r] EXCEPT !.op = o, !.id = id, !.limit = limit]
  IN /\ calls[r].pc = "idle"
     /\ \A q \in Requests : q < r => calls[q].pc # "idle"
     /\ calls' = [calls EXCEPT ![r] =
          IF JsTruthy(g.value)
            THEN [c EXCEPT !.pc = "cached", !.value = g.value,
                           !.outcome = Fulfilled(Null, "cached")]
            ELSE StartOverride([c EXCEPT !.ret = Pending, !.outcome = Pending],
                               customApiBase, currentBestBase)]
     /\ localStorage' = g.store
     /\ cacheOp' = CacheOp("get", key, localStorage, g.value, << >>, g.threw, now)
     /\ UNCHANGED << customApiBase, currentBestBase, capacity, now, written, lyricVars,
                     trackVars, shuffleVars, source, playerVars >>

\* The two calls that overlap
Pair == 1..2

OverlappingRequests ==
  {<< "getAudioUrl", "1", NoLimit >>, << "fetchPlaylist", "1", NoLimit >>}

\* The entry of an earlier session: the list of playlist "1", expired
ExpiredEntry ==
  [key |-> FullKey(CacheKey("fetchPlaylist", "1", NoLimit)),
   item |-> Payload(ValueOfPayload("fetchPlaylist", "1", "200"), 0 - 1)]

InitOverlapping ==
  /\ customApiBase = Null
  /\ currentBestBase \in {Null, API_BASES[1]}
  /\ calls = [r \in Requests |-> InitCall]
  /\ localStorage = << ExpiredEntry >>
  /\ capacity \in {1, Roomy}
  /\ now = 0
  /\ cacheOp = NoCacheOp
  /\ written = {}
  /\ NoLyrics
  /\ NotAsked
  /\ NoPlayer
  /\ NoTrack
  /\ Shuffled

NextOverlapping ==
  \/ \E r \in Pair, q \in OverlappingRequests : CallOverlapping(r, q[1], q[2], q[3])
  \/ \E r \in Pair : StickyTimeout(r)
  \/ \E r \in Pair : StickyError(r)
  \/ \E r \in Pair : StickyResponse(r)
  \/ \E r \in Pair, code \in Codes : StickyJson(r, code)
  \/ \E r \in Pair, i \in PoolIdx : RaceTimeout(r, i)
  \/ \E r \in Pair, i \in PoolIdx : RaceError(r, i)
  \/ \E r \in Pair, i \in PoolIdx : RaceResponse(r, i)
  \/ \E r \in Pair, i \in PoolIdx, code \in Codes : RaceJson(r, i, code)

SpecOverlapping == InitOverlapping /\ [][NextOverlapping]_vars

(***************************************************************************)
(* The operations that degrade to an empty result: fetchLyrics and         *)
(* fetchComments, for a track the servers hold data of and one they hold   *)
(* none of, with and without an override, the storage being disabled.      *)
(***************************************************************************)
DegradingRequests ==
  { << "fetchLyrics", "1", NoLimit >>, << "fetchLyrics", "2", NoLimit >>,
    << "fetchComments", "1", NoLimit >>, << "fetchComments", "2", NoLimit >> }

NextDegrading ==
  \/ \E url \in OverrideChoices : Quiet /\ SetApiSource(url)
  \/ \E r \in Requests, q \in DegradingRequests : Quiet /\ Call(r, q[1], q[2], q[3])
  \/ \E r \in Requests : OverrideTimeout(r)
  \/ \E r \in Requests : OverrideError(r)
  \/ \E r \in Requests : OverrideResponse(r)
  \/ \E r \in Requests, code \in Codes : OverrideJson(r, code)
  \/ \E r \in Requests : StickyTimeout(r)
  \/ \E r \in Requests : StickyError(r)
  \/ \E r \in Requests : StickyResponse(r)
  \/ \E r \in Requests, code \in Codes : StickyJson(r, code)
  \/ \E r \in Requests, i \in PoolIdx : RaceTimeout(r, i)
  \/ \E r \in Requests, i \in PoolIdx : RaceError(r, i)
  \/ \E r \in Requests, i \in PoolIdx : RaceResponse(r, i)
  \/ \E r \in Requests, i \in PoolIdx, code \in Codes : RaceJson(r, i, code)

SpecDegrading == Init /\ [][NextDegrading]_vars

(***************************************************************************)
(* The module is loaded (part_001:123-132): shuffle copies RAW_API_BASES,  *)
(* swaps its way down the copy and returns it as the pool; then the client *)
(* is used: setApiSource and facade calls with their cache reads, writes   *)
(* and pruning.  An attempt of a race is known by its place in the pool.   *)
(***************************************************************************)
\* A variant of the exchange that only assigns array[i].
Swap_Overwrites(a, i, j) == [a EXCEPT ![i] = a[j]]

\* part_001:127: [array[i], array[j]] = [array[j], array[i]], places from 1
Swap(a, i, j) == [a EXCEPT ![i] = a[j], ![j] = a[i]]

InitShuffle ==
  /\ customApiBase = Null
  /\ currentBestBase = Null
  /\ calls = [r \in Requests |-> InitCall]
  /\ localStorage = << >>
  /\ capacity = 1
  /\ now = 0
  /\ cacheOp = NoCacheOp
  /\ written = {}
  /\ NoLyrics
  /\ NotAsked
  /\ NoPlayer
  /\ NoTrack
  /\ array = SubSeq(RAW_API_BASES, 1, PoolSize)
  /\ idx = PoolSize - 1

\* part_001:125-128: one turn of the loop; Math.random() picks j in 0..i
ShuffleStep ==
  /\ idx > 0
  /\ \E j \in 0..idx : array' = Swap(array, idx + 1, j + 1)
  /\ idx' = idx - 1
  /\ UNCHANGED << customApiBase, currentBestBase, calls, localStorage, capacity, now,
                  cacheOp, written, lyricVars, trackVars, source, playerVars >>

\* part_001:129, 132: shuffle has returned and API_BASES is bound
Loaded == idx = 0

\* The requests explored once the module is loaded; the storage has room
\* for the entry of one of them.
LoadedRequests ==
  {<< "fetchPlaylist", "1", NoLimit >>, << "getAudioUrl", "1", NoLimit >>}

NextShuffle ==
  \/ ShuffleStep
  \/ \E url \in OverrideChoices : Loaded /\ Quiet /\ SetApiSource(url)
  \/ \E r \in Requests, q \in LoadedRequests :
        Loaded /\ Quiet /\ Call(r, q[1], q[2], q[3])
  \/ \E r \in Requests : OverrideTimeout(r)
  \/ \E r \in Requests : OverrideError(r)
  \/ \E r \in Requests : OverrideResponse(r)
  \/ \E r \in Requests, code \in Codes : OverrideJson(r, code)
  \/ \E r \in Requests : StickyTimeout(r)
  \/ \E r \in Requests : StickyError(r)
  \/ \E r \in Requests : StickyResponse(r)
  \/ \E r \in Requests, code \in Codes : StickyJson(r, code)
  \/ \E r \in Requests, i \in PoolIdx : RaceTimeout(r, i)
  \/ \E r \in Requests, i \in PoolIdx : RaceError(r, i)
  \/ \E r \in Requests, i \in PoolIdx : RaceResponse(r, i)
  \/ \E r \in Requests, i \in PoolIdx, code \in Codes : RaceJson(r, i, code)

SpecShuffle == InitShuffle /\ [][NextShuffle]_vars

(***************************************************************************)
(* getCurrentApiSource, asked at any moment once the module is loaded:     *)
(* between and during requests, before and after setApiSource.             *)
(***************************************************************************)
\* A variant that stops at the sticky-best.
getCurrentApiSource_NoPoolFallback(custom, best, bases) ==
  IF Truthy(custom) THEN custom ELSE best

\* part_001:144: customApiBase || currentBestBase || API_BASES[0]
getCurrentApiSource(custom, best, bases) ==
  IF Truthy(custom) THEN custom
  ELSE IF Truthy(best) THEN best
  ELSE bases[1]

\* part_001:144: a call of getCurrentApiSource
GetCurrentApiSource ==
  /\ Loaded
  /\ source' = getCurrentApiSource(customApiBase, currentBestBase, array)
  /\ UNCHANGED << customApiBase, currentBestBase, calls, localStorage, capacity, now,
                  cacheOp, written, lyricVars, trackVars, shuffleVars, playerVars >>

NextSource ==
  \/ ShuffleStep
  \/ GetCurrentApiSource
  \/ \E url \in OverrideChoices : Loaded /\ Quiet /\ SetApiSource(url)
  \/ \E r \in Requests : Loaded /\ Quiet /\ Call(r, "fetchPlaylist", "1", NoLimit)
  \/ \E r \in Requests : OverrideTimeout(r)
  \/ \E r \in Requests : OverrideError(r)
  \/ \E r \in Requests : OverrideResponse(r)
  \/ \E r \in Requests, code \in Codes : OverrideJson(r, code)
  \/ \E r \in Requests : StickyTimeout(r)
  \/ \E r \in Requests : StickyError(r)
  \/ \E r \in Requests : StickyResponse(r)
  \/ \E r \in Requests, code \in Codes : StickyJson(r, code)
  \/ \E r \in Requests, i \in PoolIdx : RaceTimeout(r, i)
  \/ \E r \in Requests, i \in PoolIdx : RaceError(r, i)
  \/ \E r \in Requests, i \in PoolIdx : RaceResponse(r, i)
  \/ \E r \in Requests, i \in PoolIdx, code \in Codes : RaceJson(r, i, code)

SpecSource == InitShuffle /\ [][NextSource]_vars

(***************************************************************************)
(* The player of App.tsx.  The component is mounted and its first          *)
(* loadPlaylistData is pending (App.tsx:61-63, isLoading true).  The user  *)
(* submits playlist ids, clicks next, previous, play/pause and entries of  *)
(* the queue; the media element loads, plays to the end or fails; the      *)
(* promises of the facade and the timeouts settle in any order.  State     *)
(* updates are rendered before the next event, so that a handler bound in  *)
(* the JSX reads the current state, while a callback created earlier (in   *)
(* an effect or for a timeout) reads the state of the render it was        *)
(* created in.  The facade is taken by its contract: fetchPlaylist         *)
(* resolves with a list or rejects, the three others resolve.              *)
(***************************************************************************)
\* The longest playlist, the runs of the track-change effect with promises
\* pending, and the timeouts pending that are explored
MaxTracks == 2
MaxEffects == 2
MaxTimers == 2

\* The results of fetchPlaylist: the first n tracks, each named by its id
\* (n = 0: the empty list)
Playlists == {[i \in 1..n |-> i] : n \in 0..MaxTracks}

\* App.tsx:75: playlist[currentIndex], 0 for undefined
CurrentTrack(list, index) == IF index < Len(list) THEN list[index + 1] ELSE 0
currentTrack == CurrentTrack(playlist, currentIndex)

\* A variant of the test that applies every response.
Applies_Every(isMounted, ref, id) == TRUE

\* App.tsx:91, 106, 110, 118: isMounted && loadingTrackRef.current === currentTrack.id
Applies(isMounted, ref, id) == isMounted /\ ref = id

\* App.tsx:78-133: a run of the effect for track id that has passed line 79.
\* isPlaying, errorCount and length are what its closure holds of the state
\* (the latter two through handlePlayError and playNext).
Effect(id) ==
  [id |-> id, isMounted |-> TRUE, url |-> "pending", lyrics |-> "none",
   comments |-> "none", play |-> "none", isPlaying |-> isPlaying',
   errorCount |-> errorCount', length |-> Len(playlist')]

\* A run none of whose promises is pending has nothing left to do.
Settled(e) ==
  e.url # "pending" /\ e.lyrics # "pending" /\ e.comments # "pending" /\ e.play # "pending"
\* What a run can still read of its closure: a run whose isMounted is false
\* applies nothing and its play() belongs to a source that was replaced; a
\* run reads isPlaying when its URL arrives (96) and errorCount and the
\* length when its play() rejects (97).  What is never read again is
\* blanked.
Readable(e) ==
  LET play == IF e.isMounted THEN e.play
              ELSE IF e.play = "pending" THEN "settled" ELSE e.play
      reads == e.isMounted /\ (e.url = "pending" \/ play = "pending")
  IN [e EXCEPT !.play = play,
               !.isPlaying = e.isMounted /\ e.url = "pending" /\ @,
               !.errorCount = IF reads THEN @ ELSE 0,
               !.length = IF reads THEN @ ELSE 0]
WithEffect(e, f) == {Readable(x) : x \in {y \in (effects \ {e}) \cup {f} : ~Settled(y)}}

\* App.tsx:78-133: the render after a state update runs the effect when
\* playlist[currentIndex] is another object than before: the cleanup of the
\* last run sets its isMounted to false (132), and the new run returns at
\* line 79 without a track or without the media element (which the loader
\* replaces, 240-242), or else sets the ref, empties lyrics and comments and
\* calls getAudioUrl (82-90).
TrackChangeEffect(changed) ==
  LET id == CurrentTrack(playlist', currentIndex')
      cleaned == {x \in {Readable([e EXCEPT !.isMounted = FALSE]) : e \in effects} :
                    ~Settled(x)}
  IN IF ~changed
       THEN UNCHANGED << effects, loadingTrackRef, uiLyrics, uiComments >>
     ELSE IF id = 0 \/ isLoading'
       THEN /\ effects' = cleaned
            /\ UNCHANGED << loadingTrackRef, uiLyrics, uiComments >>
     ELSE /\ effects' = cleaned \cup {Effect(id)}
          /\ loadingTrackRef' = id
          /\ uiLyrics' = 0
          /\ uiComments' = 0

\* Room for the run of the effect a change of track starts
Room == Cardinality(effects) < MaxEffects

clientVars ==
  << customApiBase, currentBestBase, calls, localStorage, capacity, now, cacheOp, written,
     lyricVars, trackVars, shuffleVars, source >>

\* App.tsx:188-191: the index playNext sets, `length` being playlist.length
\* in the closure of the playNext that is called
NextIndex(prev, length) == (prev + 1) % length

\* App.tsx:193-195
PrevIndex(prev, length) == (prev - 1 + length) % length

\* App.tsx:170, 180: playlist.length > 0 && errorCount < 3
MaySkip(length, count) == length > 0 /\ count < 3

\* App.tsx:43-59: the fetchPlaylist of loadPlaylistData settles: with a
\* list that has tracks (47-50), with the empty list (52) or rejected (55,
\* taken as the empty list here: both leave the playlist as it is).  The
\* player is rendered again, with a new media element.
LoadPlaylistData(tracks) ==
  /\ isLoading
  /\ isLoading' = FALSE
  /\ IF Len(tracks) > 0
       THEN /\ playlist' = tracks
            /\ currentIndex' = 0
            /\ isPlaying' = FALSE
       ELSE UNCHANGED << playlist, currentIndex, isPlaying >>
  /\ UNCHANGED << errorCount, audioSrc, audioState, timers >>
  /\ TrackChangeEffect(Len(tracks) > 0)
  /\ UNCHANGED clientVars

\* App.tsx:65-73, 44: a playlist id is submitted; the loader replaces the
\* player, and with it the media element
HandlePlaylistSubmit ==
  /\ ~isLoading /\ Room
  /\ isLoading' = TRUE
  /\ audioSrc' = 0
  /\ audioState' = "empty"
  /\ UNCHANGED << playlist, currentIndex, isPlaying, uiLyrics, uiComments, errorCount,
                  loadingTrackRef, effects, timers >>
  /\ UNCHANGED clientVars

\* App.tsx:188-191, 432: the next button
PlayNext ==
  /\ ~isLoading /\ Len(playlist) > 0 /\ Room
  /\ currentIndex' = NextIndex(currentIndex, Len(playlist))
  /\ UNCHANGED << playlist, isLoading, isPlaying, errorCount, audioSrc, audioState, timers >>
  /\ TrackChangeEffect(currentIndex' # currentIndex)
  /\ UNCHANGED clientVars

\* App.tsx:193-197, 433: the previous button
PlayPrev ==
  /\ ~isLoading /\ Len(playlist) > 0 /\ Room
  /\ currentIndex' = PrevIndex(currentIndex, Len(playlist))
  /\ errorCount' = 0
  /\ UNCHANGED << playlist, isLoading, isPlaying, audioSrc, audioState, timers >>
  /\ TrackChangeEffect(currentIndex' # currentIndex)
  /\ UNCHANGED clientVars

\* App.tsx:383: an entry of the queue is clicked
QueueClick(i) ==
  /\ ~isLoading /\ i < Len(playlist) /\ Room
  /\ currentIndex' = i
  /\ isPlaying' = TRUE
  /\ UNCHANGED << playlist, isLoading, errorCount, audioSrc, audioState, timers >>
  /\ TrackChangeEffect(currentIndex' # currentIndex)
  /\ UNCHANGED clientVars

\* App.tsx:162-165: the media element has played the track to its end
HandleEnded ==
  /\ ~isLoading /\ audioState = "ready" /\ isPlaying /\ Room
  /\ errorCount' = 0
  /\ currentIndex' = IF Len(playlist) = 0 THEN currentIndex
                     ELSE NextIndex(currentIndex, Len(playlist))
  /\ UNCHANGED << playlist, isLoading, isPlaying, audioSrc, audioState, timers >>
  /\ TrackChangeEffect(currentIndex' # currentIndex)
  /\ UNCHANGED clientVars

\* App.tsx:167-186: the body of handlePlayError (for a message it
\* recognises) and of handleAudioError, `length` and `count` being
\* playlist.length and errorCount in the closure of the handler
HandleError(length, count) ==
  IF MaySkip(length, count)
    THEN /\ errorCount' = errorCount + 1
         /\ timers' = Append(timers, length)
         /\ UNCHANGED isPlaying
    ELSE /\ isPlaying' = FALSE
         /\ UNCHANGED << errorCount, timers >>

\* The media element has fetched enough of its source to play.
AudioCanPlay ==
  /\ ~isLoading /\ audioState = "loading"
  /\ audioState' = "ready"
  /\ UNCHANGED << playlist, currentIndex, isLoading, isPlaying, uiLyrics, uiComments,
                  errorCount, audioSrc, loadingTrackRef, effects, timers >>
  /\ UNCHANGED clientVars

\* App.tsx:179-186, 252: the media element fails on its source and fires
\* `error`; handleAudioError is the one of the last render
HandleAudioError ==
  /\ ~isLoading /\ audioState \in {"loading", "ready"}
  /\ Len(timers) < MaxTimers
  /\ audioState' = "error"
  /\ HandleError(Len(playlist), errorCount)
  /\ UNCHANGED << playlist, currentIndex, isLoading, uiLyrics, uiComments, audioSrc,
                  loadingTrackRef, effects >>
  /\ UNCHANGED clientVars

\* App.tsx:199-204: play/pause is clicked while playing
TogglePause ==
  /\ ~isLoading /\ currentTrack # 0 /\ isPlaying
  /\ isPlaying' = FALSE
  /\ UNCHANGED << playlist, currentIndex, isLoading, uiLyrics, uiComments, errorCount,
                  audioSrc, loadingTrackRef, effects, timers, audioState >>
  /\ UNCHANGED clientVars

\* App.tsx:205-208: play/pause is clicked while paused, and play() resolves
TogglePlay ==
  /\ ~isLoading /\ currentTrack # 0 /\ ~isPlaying
  /\ audioState = "ready"
  /\ isPlaying' = TRUE
  /\ errorCount' = 0
  /\ UNCHANGED << playlist, currentIndex, isLoading, uiLyrics, uiComments, audioSrc,
                  loadingTrackRef, effects, timers, audioState >>
  /\ UNCHANGED clientVars

\* App.tsx:205-211, 167-177: play/pause is clicked while paused, and play()
\* rejects because the element has no source it can play; `recognised`
\* tells whether the message of the error has one of the two texts of
\* line 169
TogglePlayFails(recognised) ==
  /\ ~isLoading /\ currentTrack # 0 /\ ~isPlaying
  /\ audioState \in {"empty", "error"}
  /\ Len(timers) < MaxTimers
  /\ IF recognised THEN HandleError(Len(playlist), errorCount)
     ELSE UNCHANGED << isPlaying, errorCount, timers >>
  /\ UNCHANGED << playlist, currentIndex, isLoading, uiLyrics, uiComments, audioSrc,
                  loadingTrackRef, effects, audioState >>
  /\ UNCHANGED clientVars

\* App.tsx:172, 182: a timeout fires and calls the playNext of the render
\* in which its handler was created
TimerFires ==
  /\ timers # << >> /\ Room
  /\ timers' = Tail(timers)
  /\ currentIndex' = IF Head(timers) = 0 THEN currentIndex
                     ELSE NextIndex(currentIndex, Head(timers))
  /\ UNCHANGED << playlist, isLoading, isPlaying, errorCount, audioSrc, audioState >>
  /\ TrackChangeEffect(currentIndex' # currentIndex)
  /\ UNCHANGED clientVars

\* App.tsx:90-103: getAudioUrl resolves.  A run that is not to apply the
\* URL returns (91); the others set the source, start to load it and, when
\* playing, call play() (93-98), and go on to the extras (105, 109).
GetAudioUrlResolves(e) ==
  /\ e \in effects /\ e.url = "pending"
  /\ IF ~Applies(e.isMounted, loadingTrackRef, e.id)
       THEN /\ effects' = WithEffect(e, [e EXCEPT !.url = "discarded"])
            /\ UNCHANGED << audioSrc, audioState >>
       ELSE /\ effects' = WithEffect(e,
                 [e EXCEPT !.url = "applied", !.lyrics = "pending", !.comments = "pending",
                           !.play = IF ~isLoading /\ e.isPlaying THEN "pending" ELSE "none"])
            /\ IF isLoading THEN UNCHANGED << audioSrc, audioState >>
               ELSE audioSrc' = e.id /\ audioState' = "loading"
  /\ UNCHANGED << playlist, currentIndex, isLoading, isPlaying, uiLyrics, uiComments,
                  errorCount, loadingTrackRef, timers >>
  /\ UNCHANGED clientVars

\* App.tsx:105-107: fetchLyrics resolves
FetchLyricsResolves(e) ==
  /\ e \in effects /\ e.lyrics = "pending"
  /\ IF Applies(e.isMounted, loadingTrackRef, e.id)
       THEN /\ uiLyrics' = e.id
            /\ effects' = WithEffect(e, [e EXCEPT !.lyrics = "applied"])
       ELSE /\ UNCHANGED uiLyrics
            /\ effects' = WithEffect(e, [e EXCEPT !.lyrics = "discarded"])
  /\ UNCHANGED << playlist, currentIndex, isLoading, isPlaying, uiComments, errorCount,
                  audioSrc, loadingTrackRef, timers, audioState >>
  /\ UNCHANGED clientVars

\* App.tsx:109-111: fetchComments resolves
FetchCommentsResolves(e) ==
  /\ e \in effects /\ e.comments = "pending"
  /\ IF Applies(e.isMounted, loadingTrackRef, e.id)
       THEN /\ uiComments' = e.id
            /\ effects' = WithEffect(e, [e EXCEPT !.comments = "applied"])
       ELSE /\ UNCHANGED uiComments
            /\ effects' = WithEffect(e, [e EXCEPT !.comments = "discarded"])
  /\ UNCHANGED << playlist, currentIndex, isLoading, isPlaying, uiLyrics, errorCount,
                  audioSrc, loadingTrackRef, timers, audioState >>
  /\ UNCHANGED clientVars

\* App.tsx:97: the play() of a run resolves, or rejects with an error whose
\* message handlePlayError does not recognise (169)
PlaySettles(e) ==
  /\ e \in effects /\ e.play = "pending"
  /\ effects' = WithEffect(e, [e EXCEPT !.play = "settled"])
  /\ UNCHANGED << playlist, currentIndex, isLoading, isPlaying, uiLyrics, uiComments,
                  errorCount, audioSrc, loadingTrackRef, timers, audioState >>
  /\ UNCHANGED clientVars

\* App.tsx:97, 167-177: the play() of a run rejects after the element has
\* failed on the source the run gave it, with an error whose message
\* handlePlayError recognises; handlePlayError is the one of the render the
\* effect ran in
PlayRejects(e) ==
  /\ e \in effects /\ e.play = "pending"
  /\ ~isLoading /\ audioState = "error" /\ audioSrc = e.id /\ e.isMounted
  /\ Len(timers) < MaxTimers
  /\ effects' = WithEffect(e, [e EXCEPT !.play = "settled"])
  /\ HandleError(e.length, e.errorCount)
  /\ UNCHANGED << playlist, currentIndex, isLoading, uiLyrics, uiComments, audioSrc,
                  loadingTrackRef, audioState >>
  /\ UNCHANGED clientVars

InitPlayer == Init

\* The promises of the facade have settled: the URL, lyrics and comments of
\* the current track have arrived.
Calm ==
  \A e \in effects :
    e.url # "pending" /\ e.lyrics # "pending" /\ e.comments # "pending"

\* The player with a facade that answers before the next event of the
\* user, the media element or a timeout (it answers from its cache, or the
\* events are seconds apart).
NextPlayer ==
  \/ \E tracks \in Playlists : LoadPlaylistData(tracks)
  \/ Calm /\ HandlePlaylistSubmit
  \/ Calm /\ PlayNext
  \/ Calm /\ PlayPrev
  \/ \E i \in 0..(MaxTracks - 1) : Calm /\ QueueClick(i)
  \/ Calm /\ HandleEnded
  \/ Calm /\ AudioCanPlay
  \/ Calm /\ HandleAudioError
  \/ Calm /\ TogglePause
  \/ Calm /\ TogglePlay
  \/ \E recognised \in BOOLEAN : Calm /\ TogglePlayFails(recognised)
  \/ Calm /\ TimerFires
  \/ \E e \in effects : GetAudioUrlResolves(e)
  \/ \E e \in effects : FetchLyricsResolves(e)
  \/ \E e \in effects : FetchCommentsResolves(e)
  \/ \E e \in effects : Calm /\ PlaySettles(e)
  \/ \E e \in effects : Calm /\ PlayRejects(e)

SpecPlayer == InitPlayer /\ [][NextPlayer]_vars

\* The player with a media element that plays what it is given, and a
\* facade whose promises settle at any time and in any order: before or
\* after the next change of track or of playlist.
NextLoadTrack ==
  \/ \E tracks \in Playlists : LoadPlaylistData(tracks)
  \/ HandlePlaylistSubmit
  \/ PlayNext
  \/ PlayPrev
  \/ \E i \in 0..(MaxTracks - 1) : QueueClick(i)
  \/ AudioCanPlay
  \/ HandleEnded
  \/ \E e \in effects : GetAudioUrlResolves(e)
  \/ \E e \in effects : FetchLyricsResolves(e)
  \/ \E e \in effects : FetchCommentsResolves(e)
  \/ \E e \in effects : PlaySettles(e)

SpecLoadTrack == InitPlayer /\ [][NextLoadTrack]_vars

(***************************************************************************)
(* The cache functions on their own: getCache, setCache and pruneCache     *)
(* applied to a storage that holds, when the page is loaded, entries of    *)
(* earlier sessions and of other scripts of the origin, in any order, and  *)
(* is either full or has room for MaxEntries entries.                      *)
(***************************************************************************)
\* The longest storage explored.
MaxEntries == 3

\* The cache keys explored, each with the lifetime and the value its facade
\* operation gives it (part_001:293, 415).
CacheKeys == {CacheKey("fetchPlaylist", "1", NoLimit), CacheKey("getAudioUrl", "1", NoLimit)}
TtlOfKey(key) ==
  IF key = CacheKey("fetchPlaylist", "1", NoLimit) THEN TTL_CONFIG.PLAYLIST
  ELSE TTL_CONFIG.URL
ValueOfKey(key) ==
  IF key = CacheKey("fetchPlaylist", "1", NoLimit)
    THEN ValueOfPayload("fetchPlaylist", "1", "200")
    ELSE ValueOfPayload("getAudioUrl", "1", "200")

\* A key of another script of the origin; its text is no JSON.
ForeignKey == << "", "theme" >>

\* The entries found when the page is loaded: under a cache key a text that
\* does not parse, the empty text, an entry that expired before the page was
\* loaded (now = 0) or one that is valid up to PLAYLIST or URL lifetime.
InitialItems(k) ==
  {Garbage, EmptyText, Payload(ValueOfKey(k), 0 - 1), Payload(ValueOfKey(k), TtlOfKey(k))}
InitialEntries ==
  UNION {{[key |-> FullKey(k), item |-> it] : it \in InitialItems(k)} : k \in CacheKeys}
  \cup {[key |-> ForeignKey, item |-> Garbage]}

DistinctKeys(store) ==
  \A i, j \in 1..Len(store) : i # j => store[i].key # store[j].key
InitialStores ==
  {st \in UNION {[1..n -> InitialEntries] : n \in 0..MaxEntries} : DistinctKeys(st)}

InitCache ==
  /\ customApiBase = Null
  /\ currentBestBase = Null
  /\ calls = [r \in Requests |-> InitCall]
  /\ localStorage \in InitialStores
  /\ capacity \in {Len(localStorage), MaxEntries}
  /\ now = 0
  /\ cacheOp = NoCacheOp
  /\ written = {}
  /\ NoLyrics
  /\ NotAsked
  /\ NoPlayer
  /\ NoTrack
  /\ Shuffled

\* getCache(key) is run
GetCacheOp(key) ==
  LET g == getCache(localStorage, key, now)
  IN /\ localStorage' = g.store
     /\ cacheOp' = CacheOp("get", key, localStorage, g.value, << >>, g.threw, now)
     /\ UNCHANGED << customApiBase, currentBestBase, calls, capacity, now, written,
                     lyricVars, trackVars, shuffleVars, source, playerVars >>

\* setCache(key, data, ttl) is run
SetCacheOp(key) ==
  LET w == setCache(localStorage, key, ValueOfKey(key), TtlOfKey(key), now, capacity)
  IN /\ localStorage' = w.store
     /\ cacheOp' = CacheOp("set", key, localStorage, ValueOfKey(key), w.log, w.threw, now)
     /\ written' = WrittenAfter(written, key, << >>, ValueOfKey(key), TtlOfKey(key),
                                now, w.log)
     /\ UNCHANGED << customApiBase, currentBestBase, calls, capacity, now, lyricVars, trackVars, shuffleVars, source, playerVars >>

\* pruneCache() is run
PruneCacheOp ==
  /\ localStorage' = pruneCache(localStorage, now)
  /\ cacheOp' = CacheOp("prune", "", localStorage, JsNull, << "pruneCache" >>, FALSE, now)
  /\ UNCHANGED << customApiBase, currentBestBase, calls, capacity, now, written,
                  lyricVars, trackVars, shuffleVars, source, playerVars >>

NextCache ==
  \/ \E key \in CacheKeys : GetCacheOp(key)
  \/ \E key \in CacheKeys : SetCacheOp(key)
  \/ PruneCacheOp
  \/ Tick

SpecCache == InitCache /\ [][NextCache]_vars

(***************************************************************************)
(* Lyrics (part_001:449-492).  A lyric text is a list of lines (the text   *)
(* split at the line feeds), and a line is a list of tokens: a bracketed   *)
(* time tag with its three runs of digits, a run of other characters, or   *)
(* white space.                                                            *)
(***************************************************************************)
\* The longest lyric text explored, in lines.
MaxLines == 3

Tag(mm, ss, ff) == [kind |-> "tag", mm |-> mm, ss |-> ss, ff |-> ff, s |-> ""]
Text(x) == [kind |-> "text", mm |-> << >>, ss |-> << >>, ff |-> << >>, s |-> x]
Space == [kind |-> "space", mm |-> << >>, ss |-> << >>, ff |-> << >>, s |-> " "]

\* part_001:453: /\[(\d{2}):(\d{2})\.(\d{2,3})\]/ matches the token
MatchesTimeExp(tok) ==
  /\ tok.kind = "tag"
  /\ Len(tok.mm) = 2 /\ Len(tok.ss) = 2 /\ Len(tok.ff) \in {2, 3}

\* part_001:455: timeExp.exec(line) finds the first match from place i on
\* (0: no match)
RECURSIVE FirstMatch(_, _)
FirstMatch(line, i) ==
  IF i > Len(line) THEN 0
  ELSE IF MatchesTimeExp(line[i]) THEN i
  ELSE FirstMatch(line, i + 1)

\* part_001:457-459: parseInt of a run of decimal digits
RECURSIVE ParseInt(_)
ParseInt(ds) ==
  IF ds = << >> THEN 0
  ELSE 10 * ParseInt(SubSeq(ds, 1, Len(ds) - 1)) + ds[Len(ds)]

\* A variant that scales the fraction by ten whatever its length.
TimeOfTag_AlwaysTimesTen(tok) ==
  ParseInt(tok.mm) * 60 * 1000 + ParseInt(tok.ss) * 1000 + ParseInt(tok.ff) * 10

\* part_001:457-460
TimeOfTag(tok) ==
  LET min == ParseInt(tok.mm)
      sec == ParseInt(tok.ss)
      ms == ParseInt(tok.ff) * (IF Len(tok.ff) = 2 THEN 10 ELSE 1)
  IN min * 60 * 1000 + sec * 1000 + ms

\* String.prototype.trim
RECURSIVE TrimLeft(_)
TrimLeft(toks) ==
  IF toks # << >> /\ Head(toks).kind = "space" THEN TrimLeft(Tail(toks)) ELSE toks
RECURSIVE TrimRight(_)
TrimRight(toks) ==
  IF toks # << >> /\ toks[Len(toks)].kind = "space"
    THEN TrimRight(SubSeq(toks, 1, Len(toks) - 1)) ELSE toks
Trim(toks) == TrimRight(TrimLeft(toks))

\* part_001:461: line.replace(timeExp, '').trim(), the match being at place i
TextOfLine(line, i) == Trim(RemoveAt(line, i))

\* A variant of the loop that keeps a tagged line whose text is empty.
RECURSIVE ParseLines_KeepsEmptyText(_)
ParseLines_KeepsEmptyText(lines) ==
  IF lines = << >> THEN << >>
  ELSE LET line == Head(lines)
           i == FirstMatch(line, 1)
           rest == ParseLines_KeepsEmptyText(Tail(lines))
       IN IF i = 0 THEN rest
          ELSE << [time |-> TimeOfTag(line[i]), text |-> TextOfLine(line, i)] >> \o rest

\* part_001:454-466: the loop over the lines
RECURSIVE ParseLines(_)
ParseLines(lines) ==
  IF lines = << >> THEN << >>
  ELSE LET line == Head(lines)
           i == FirstMatch(line, 1)
           rest == ParseLines(Tail(lines))
       IN IF i = 0 THEN rest
          ELSE IF TextOfLine(line, i) = << >> THEN rest
          ELSE << [time |-> TimeOfTag(line[i]), text |-> TextOfLine(line, i)] >> \o rest

\* part_001:449-468
parseLrc(text) == IF text = << >> THEN << >> ELSE ParseLines(text)

\* A variant without the floor: the raw difference is taken as it is.
Max_NoFloor(a, b) == b

\* part_001:479: Math.max
Max(a, b) == IF a >= b THEN a ELSE b
Abs(a) == IF a >= 0 THEN a ELSE 0 - a

\* A variant of the search that goes on to the last line that qualifies.
RECURSIVE FindTrans_LastSeen(_, _)
FindTrans_LastSeen(translation, time) ==
  IF translation = << >> THEN << >>
  ELSE IF Abs(translation[Len(translation)].time - time) < 500
         THEN translation[Len(translation)].text
  ELSE FindTrans_LastSeen(SubSeq(translation, 1, Len(translation) - 1), time)

\* part_001:480, 484: translation.find(...) and transLine?.text; the empty
\* text stands for undefined
RECURSIVE FindTrans(_, _)
FindTrans(translation, time) ==
  IF translation = << >> THEN << >>
  ELSE IF Abs(Head(translation).time - time) < 500 THEN Head(translation).text
  ELSE FindTrans(Tail(translation), time)

\* A payload without the field (data.lrc or data.tlyric undefined, or
\* without its lyric property): written as a text of one line that holds
\* one token of a kind of its own.
NoLrcField ==
  << << [kind |-> "no field", mm |-> << >>, ss |-> << >>, ff |-> << >>, s |-> ""] >> >>

\* part_001:474, 475: data.lrc?.lyric ? parseLrc(data.lrc.lyric) : []
ParsedField(field) ==
  IF field = NoLrcField \/ field = << >> THEN << >> ELSE parseLrc(field)

\* part_001:474-487: what the fetcher of fetchLyrics returns for a payload
LyricLines(lrcText, tlyricText) ==
  LET original == ParsedField(lrcText)
      translation == ParsedField(tlyricText)
  IN [index \in 1..Len(original) |->
        LET line == original[index]
            rawDuration == IF index < Len(original)
                             THEN original[index + 1].time - line.time
                             ELSE 5000
        IN [time |-> line.time, text |-> line.text,
            duration |-> Max(400, rawDuration),
            trans |-> FindTrans(translation, line.time),
            isContinuation |-> FALSE]]

\* The lines explored: every well-formed tag made of these runs of digits
\* in front of a word, and lines without text, without tag, with a tag that
\* is not well formed, with two tags, and with the tag inside the text.
Minutes == {<< 0, 0 >>, << 0, 1 >>}
Seconds == {<< 0, 0 >>, << 5, 9 >>}
Fractions == {<< 5, 0 >>, << 0, 5, 0 >>}
GoodTags == {Tag(mm, ss, ff) : mm \in Minutes, ss \in Seconds, ff \in Fractions}
LrcLines ==
  {<< t, Text("la") >> : t \in GoodTags}
  \cup { << Tag(<< 0, 0 >>, << 5, 9 >>, << 9, 9, 9 >>) >>,
         << Tag(<< 0, 0 >>, << 5, 9 >>, << 9, 9 >>), Space >>,
         << Text("by someone") >>,
         << Tag(<< 0, 1 >>, << 0, 0 >>, << 5 >>), Text("la") >>,
         << Tag(<< 0, 1 >>, << 0, 0 >>, << >>), Text("la") >>,
         << Tag(<< 0, 0 >>, << 0, 1 >>, << 9, 9 >>),
            Tag(<< 0, 1 >>, << 0, 1 >>, << 9, 9 >>), Text("la") >>,
         << Text("la"), Space, Tag(<< 0, 0 >>, << 0, 2 >>, << 0, 0, 7 >>), Space,
            Text("la") >> }
LyricTexts == UNION {[1..n -> LrcLines] : n \in 0..MaxLines} \cup {NoLrcField}

\* The translations explored: lines at 990, 549 and 550 ms, which lie
\* within 500 ms of the original lines at 500 ms (all three) and at 50 ms
\* (549 only; 550 is exactly 500 ms away), in both orders.
Tra == << Tag(<< 0, 0 >>, << 0, 0 >>, << 9, 9 >>), Text("tra") >>
Tri == << Tag(<< 0, 0 >>, << 0, 0 >>, << 5, 4, 9 >>), Text("tri") >>
Tro == << Tag(<< 0, 0 >>, << 0, 0 >>, << 5, 5, 0 >>), Text("tro") >>
TransTexts ==
  { << >>, NoLrcField, << Tra >>, << Tra, Tri >>, << Tri, Tra >>, << Tro >> }

InitLyrics ==
  /\ customApiBase = Null
  /\ currentBestBase = Null
  /\ calls = [r \in Requests |-> InitCall]
  /\ localStorage = << >>
  /\ capacity = Roomy
  /\ now = 0
  /\ cacheOp = NoCacheOp
  /\ written = {}
  /\ lrc \in LyricTexts
  /\ tlyric \in TransTexts
  /\ lyrics = NotFetched
  /\ NotAsked
  /\ NoPlayer
  /\ NoTrack
  /\ Shuffled

\* part_001:473-487: the /lyric payload has arrived and the fetcher of
\* fetchLyrics makes the timeline of it
FetchLyricsJson ==
  /\ lyrics = NotFetched
  /\ lyrics' = LyricLines(lrc, tlyric)
  /\ UNCHANGED << customApiBase, currentBestBase, calls, localStorage, capacity, now,
                  cacheOp, written, lrc, tlyric, trackVars, shuffleVars, source, playerVars >>

NextLyrics == FetchLyricsJson

SpecLyrics == InitLyrics /\ [][NextLyrics]_vars

(***************************************************************************)
(* normalizeTrack on its own (part_001:274-290): a song of a payload is    *)
(* normalized.                                                             *)
(***************************************************************************)
InitTrack ==
  /\ customApiBase = Null
  /\ currentBestBase = Null
  /\ calls = [r \in Requests |-> InitCall]
  /\ localStorage = << >>
  /\ capacity = 0
  /\ now = 0
  /\ cacheOp = NoCacheOp
  /\ written = {}
  /\ NoLyrics
  /\ NotAsked
  /\ NoPlayer
  /\ song \in Songs
  /\ track = NotNormalized
  /\ Shuffled

\* part_001:296, 338, 365, 403, 406: songs.map(normalizeTrack), one song
NormalizeTrack ==
  /\ track = NotNormalized
  /\ track' = normalizeTrack(song)
  /\ UNCHANGED << customApiBase, currentBestBase, calls, localStorage, capacity, now,
                  cacheOp, written, lyricVars, song, shuffleVars, source, playerVars >>

NextTrack == NormalizeTrack

SpecTrack == InitTrack /\ [][NextTrack]_vars

(***************************************************************************)
(* Observers used by the properties below.                                 *)
(***************************************************************************)
\* The calls whose record is complete: issued, and not yet reduced to their
\* attempts in flight.
Live(r) == calls[r].pc \notin {"idle", "retired"}

\* The number of attempts call record c has started on base e (part_001:208,
\* 221, 238, 257).
AttemptsOn(c, e) ==
  (IF c.ov.phase # "none" /\ c.ov.base = e THEN 1 ELSE 0)
  + (IF c.st.phase # "none" /\ c.st.base = e THEN 1 ELSE 0)
  + Cardinality({i \in PoolIdx : c.att[i] # "none" /\ array[i] = e})

\* Every attempt call record c has started has failed, and every endpoint
\* of the pool was attempted.
AllFailed(c) ==
  /\ c.ov.phase \in {"none", "fail"}
  /\ c.st.phase \in {"none", "fail"}
  /\ \A i \in PoolIdx : c.att[i] = "fail"

AggregateErrors == {ErrAllServers, ErrNoServer}

(***************************************************************************)
(* C1.  With no override active and no other request in flight: the        *)
(* endpoint that returned the successful response of a request is stored   *)
(* as sticky-best when the request resolves, and the next call attempts    *)
(* that endpoint first and alone, before any race attempt.  (Checked under *)
(* SpecAuto, where no override is ever set and calls follow one another;   *)
(* the next call is the next one that misses the cache.)                   *)
(***************************************************************************)
C1_SuccessBecomesSticky ==
  [][ \A r \in Requests :
        /\ (calls[r].ret.state = "pending" /\ calls'[r].ret.state = "fulfilled")
             => currentBestBase' = calls'[r].ret.base
        /\ (r > 1 /\ calls[r].pc = "idle" /\ calls'[r].pc \notin {"idle", "cached"}
                  /\ calls[r - 1].ret.state = "fulfilled")
             => /\ calls'[r].pc = "sticky"
                /\ calls'[r].st.base = calls[r - 1].ret.base
                /\ \A i \in PoolIdx : calls'[r].att[i] = "none" ]_vars

C3_ErrorCodeNeverReturned ==
  \A r \in Requests :
    calls[r].ret.state = "fulfilled" => ~CodeIsError(calls[r].ret.code)

(***************************************************************************)
(* C4.  Within one fetchWithFailover call no endpoint is attempted more    *)
(* than once.                                                              *)
(***************************************************************************)
C4_NoEndpointTwice ==
  \A r \in Requests :
    Live(r) => \A e \in Pool \cup {CustomUrl} : AttemptsOn(calls[r], e) <= 1

(***************************************************************************)
(* C5.  Whenever a user override is set, a fetchWithFailover call attempts *)
(* the override endpoint first and alone; if that attempt fails the call   *)
(* falls through to automatic selection; and the override changes only in  *)
(* a setApiSource step, never in a step of a request.                      *)
(***************************************************************************)
C5_OverrideFirstAndKept ==
  [][ /\ customApiBase' # customApiBase
           => (calls' = calls /\ currentBestBase' = customApiBase')
      /\ \A r \in Requests :
           /\ (calls[r].pc = "idle" /\ calls'[r].pc \notin {"idle", "cached"}
                 /\ Truthy(customApiBase))
                => /\ calls'[r].pc = "override"
                   /\ calls'[r].ov = Attempt(customApiBase)
           /\ calls[r].pc = "override"
                => /\ calls[r].st = NoAttempt
                   /\ \A i \in PoolIdx : calls[r].att[i] = "none"
           /\ (calls[r].pc = "override" /\ calls'[r].pc # "override")
                => \/ /\ calls'[r].ov.phase = "ok"
                      /\ calls'[r].pc = "done"
                      /\ calls'[r].ret.state = "fulfilled"
                      /\ calls'[r].ret.base = calls[r].ov.base
                   \/ /\ calls'[r].ov.phase = "fail"
                      /\ calls'[r].pc \in {"sticky", "race2"}
                      /\ calls'[r].ret.state = "pending" ]_vars

\* The override attempt of a call failed, the call went on to the races, and
\* the override is still set.
C5_Witness ==
  \E r \in Requests :
    /\ Truthy(customApiBase)
    /\ calls[r].ov = [base |-> customApiBase, phase |-> "fail"]
    /\ calls[r].pc \in {"race2", "race3"}

(***************************************************************************)
(* C6.  When a sticky-best endpoint is set it is attempted alone before    *)
(* any race; if that attempt fails and no override is active, sticky-best  *)
(* is empty when the tier-2 attempts of the same call start; if an         *)
(* override is active the failed sticky-best is left unchanged; if the     *)
(* attempt succeeds sticky-best is left unchanged.                         *)
(***************************************************************************)
C6_StickyAloneThenCleared ==
  [][ \A r \in Requests :
        /\ calls[r].pc = "sticky"
             => /\ \A i \in PoolIdx : calls[r].att[i] = "none"
                /\ calls'[r].pc \in {"sticky", "race2", "done"}
        /\ (calls[r].pc \in {"idle", "override"} /\ calls'[r].pc = "race2")
             => ~Truthy(currentBestBase)
        /\ (calls[r].pc = "sticky" /\ calls'[r].pc = "race2")
             => /\ calls'[r].st.phase = "fail"
                /\ \A i \in Tier2Idx : calls'[r].att[i] = "fetch"
                /\ IF Truthy(customApiBase)
                     THEN currentBestBase' = currentBestBase
                     ELSE currentBestBase' = Null
        /\ (calls[r].pc = "sticky" /\ calls'[r].pc = "done")
             => /\ calls'[r].st.phase = "ok"
                /\ calls'[r].ret.base = calls[r].st.base
                /\ currentBestBase' = currentBestBase ]_vars

\* The sticky-best attempt of a call failed with no override active: the
\* tier-2 attempts are in flight and sticky-best is empty.
C6_Witness ==
  \E r \in Requests :
    /\ ~Truthy(customApiBase)
    /\ calls[r].pc = "race2" /\ calls[r].st.phase = "fail"
    /\ \A i \in Tier2Idx : calls[r].att[i] = "fetch"
    /\ currentBestBase = Null

(***************************************************************************)
(* C7.  Within one call the tiers run in the order override, sticky-best,  *)
(* tier 2, tier 3: an attempt of a later tier exists only when every       *)
(* attempt of the earlier tiers of that call has failed, and no tier-3     *)
(* attempt exists when some tier-2 attempt succeeded.                      *)
(***************************************************************************)
C7_TiersInOrder ==
  \A r \in Requests :
    Live(r) =>
      /\ calls[r].st.phase # "none" => calls[r].ov.phase \in {"none", "fail"}
      /\ (\E i \in PoolIdx : calls[r].att[i] # "none")
           => /\ calls[r].ov.phase \in {"none", "fail"}
              /\ calls[r].st.phase \in {"none", "fail"}
      /\ (\E i \in Tier3Idx : calls[r].att[i] # "none")
           => \A j \in Tier2Idx : calls[r].att[j] = "fail"

\* A call that went through all four tiers: a tier-3 attempt is in flight.
C7_Witness ==
  \E r \in Requests :
    /\ calls[r].pc = "race3"
    /\ calls[r].ov.phase = "fail" /\ calls[r].st.phase = "fail"
    /\ \E i \in Tier3Idx : calls[r].att[i] \in {"fetch", "body"}

(***************************************************************************)
(* C8.  A race settles exactly once: it resolves with the response of the  *)
(* first attempt of its tier to succeed, rejects only when all attempts of *)
(* the tier have failed, and what losing attempts do after it settled      *)
(* changes neither the race nor the result delivered to the caller.        *)
(***************************************************************************)
C8_RaceSettlesOnce ==
  [][ \A r \in Requests :
        calls'[r].pc # "retired" =>
          /\ \A tier \in {"race2", "race3"} :
               LET p == TierPromise(calls[r], tier)
                   q == TierPromise(calls'[r], tier)
               IN /\ p.state \in {"fulfilled", "rejected"} => q = p
                  /\ (p.state = "pending" /\ q.state = "fulfilled")
                       => \E i \in TierIdx(tier) :
                            /\ calls[r].att[i] = "body" /\ calls'[r].att[i] = "ok"
                            /\ q.base = API_BASES[i]
                            /\ \A j \in TierIdx(tier) : calls[r].att[j] # "ok"
                  /\ (p.state = "pending" /\ \E i \in TierIdx(tier) : calls'[r].att[i] = "ok")
                       => q.state = "fulfilled"
                  /\ q.state = "rejected"
                       => \A i \in TierIdx(tier) : calls'[r].att[i] = "fail"
                  /\ (q.state = "fulfilled" /\ calls'[r].pc = "done")
                       => calls'[r].ret = q
          /\ calls[r].ret.state \in {"fulfilled", "rejected"}
               => (calls'[r].ret = calls[r].ret /\ calls'[r].outcome = calls[r].outcome) ]_vars

\* A losing attempt succeeded after its race had resolved with the response
\* of another endpoint, which is still the result delivered.
C8_Witness ==
  \E r \in Requests :
    /\ calls[r].pc = "done" /\ calls[r].t2.state = "fulfilled"
    /\ calls[r].ret = calls[r].t2
    /\ \E i \in Tier2Idx : calls[r].att[i] = "ok" /\ API_BASES[i] # calls[r].t2.base

(***************************************************************************)
(* C9.  A fetchWithFailover call rejects only after every endpoint of the  *)
(* pool has been attempted in that call and has failed; a call in which an *)
(* attempt on a pool endpoint succeeded resolves.                          *)
(***************************************************************************)
C9_RejectsOnlyWhenExhausted ==
  \A r \in Requests :
    Live(r) =>
      /\ calls[r].ret.state = "rejected"
           => /\ \A i \in PoolIdx : calls[r].att[i] = "fail"
              /\ calls[r].ov.phase \in {"none", "fail"}
              /\ calls[r].st.phase \in {"none", "fail"}
      /\ (\E i \in PoolIdx : calls[r].att[i] = "ok") => calls[r].ret.state = "fulfilled"
      /\ (\E i \in PoolIdx : calls[r].att[i] \in {"none", "fetch", "body"})
           => calls[r].ret.state # "rejected"

\* A call rejected after its sticky-best attempt and every pool endpoint
\* had failed.
C9_Witness ==
  \E r \in Requests :
    /\ calls[r].ret = Rejected(ErrAllServers)
    /\ calls[r].st.phase = "fail"
    /\ \A i \in PoolIdx : calls[r].att[i] = "fail"

(***************************************************************************)
(* C10.  Each network attempt (connect, response and body decoding) is     *)
(* released by its timeout at the latest, so that no attempt and no call   *)
(* stays pending forever: whenever an attempt is in flight, the step of    *)
(* its timer is possible.                                                  *)
(***************************************************************************)
C10_EveryAttemptHasTimeout ==
  \A r \in Requests :
    /\ (calls[r].pc = "override" /\ calls[r].ov.phase \in {"fetch", "body"})
         => ENABLED OverrideTimeout(r)
    /\ (calls[r].pc = "sticky" /\ calls[r].st.phase \in {"fetch", "body"})
         => ENABLED StickyTimeout(r)
    /\ \A i \in PoolIdx :
         calls[r].att[i] \in {"fetch", "body"} => ENABLED RaceTimeout(r, i)

(***************************************************************************)
(* Observers of the cache.                                                 *)
(***************************************************************************)
\* The cache key of call record c
KeyOf(c) == CacheKey(c.op, c.id, c.limit)

\* An empty result: null, the empty array or the empty object
EmptyResult(v) ==
  \/ v.t = "null"
  \/ (v.t = "array" /\ v.items = << >>)
  \/ (v.t = "object" /\ v.props = NoProps)

\* The last cache operation ran pruneCache, and the clock has not moved
\* since.
JustPruned ==
  /\ cacheOp.at = now
  /\ \E i \in 1..Len(cacheOp.log) : cacheOp.log[i] = "pruneCache"

\* The entry at place i of the store is one pruneCache is to remove at time
\* t: a cache entry whose text does not parse, or whose expiry has passed.
Stale(store, i, t) ==
  /\ StartsWithPrefix(store[i].key)
  /\ (ParseFails(store[i].item) \/ t > store[i].item.expiry)

(***************************************************************************)
(* C11.  Cache round trip: once setCache(k, v, ttl) has stored its entry,  *)
(* getCache(k) at any time up to write time + ttl returns v (as a reader   *)
(* sees it: same type, text, length and property values) and leaves the    *)
(* entry in place; at any later time it returns null and the entry is no   *)
(* longer in the store.                                                    *)
(***************************************************************************)
C11_CacheRoundTrip ==
  cacheOp.op = "get" =>
    \A w \in written :
      w.key = cacheOp.key =>
        IF cacheOp.at <= w.at + w.ttl
          THEN /\ SameValue(cacheOp.value, w.value)
               /\ GetItem(localStorage, FullKey(w.key)) = Payload(w.value, w.at + w.ttl)
          ELSE /\ cacheOp.value = JsNull
               /\ ~HasKey(localStorage, FullKey(w.key))

\* getCache has read, at the last instant of its lifetime, a track list
\* that setCache stored; the text it was stored as had dropped the property
\* that holds undefined.
C11_Witness ==
  /\ cacheOp.op = "get"
  /\ \E w \in written :
       /\ w.key = cacheOp.key /\ cacheOp.at = w.at + w.ttl
       /\ cacheOp.value.t = "array" /\ cacheOp.value # w.value
       /\ SameValue(cacheOp.value, w.value)

(***************************************************************************)
(* C12.  getCache(k) on an entry whose stored text fails to parse returns  *)
(* null, throws nothing, and deletes the entry: the entry is no longer in  *)
(* the store after the call.                                               *)
(***************************************************************************)
C12_UnparsableEntryDeleted ==
  (cacheOp.op = "get" /\ cacheOp.found.form \in {"garbage", "empty"})
    => /\ cacheOp.value = JsNull
       /\ ~cacheOp.threw
       /\ ~HasKey(localStorage, FullKey(cacheOp.key))

(***************************************************************************)
(* C13.  setCache makes at most two write attempts: when the first write   *)
(* fails it runs pruneCache once and retries once; when the retry fails    *)
(* too the write is dropped and nothing is thrown; the facade call that    *)
(* triggered the write resolves with the fetched data all the same, and no *)
(* run of getCache or setCache throws.                                     *)
(***************************************************************************)
C13_WriteFailureNeverSurfaces ==
  /\ ~cacheOp.threw
  /\ cacheOp.op = "set" =>
       /\ cacheOp.log \in
            { << "setItem" >>,
              << "setItem throws", "pruneCache", "setItem" >>,
              << "setItem throws", "pruneCache", "setItem throws" >> }
       /\ cacheOp.log[1] = "setItem throws" => cacheOp.found.form = "none"
       /\ cacheOp.log[Len(cacheOp.log)] = "setItem"
            <=> HasKey(localStorage, FullKey(cacheOp.key))
  /\ \A r \in Requests :
       (calls[r].pc = "done" /\ calls[r].ret.state = "fulfilled")
         => /\ calls[r].outcome.state = "fulfilled"
            /\ calls[r].value = ValueOfPayload(calls[r].op, calls[r].id, calls[r].ret.code)
            /\ Cacheable(calls[r].value)
                 => /\ cacheOp.op = "set" /\ cacheOp.key = KeyOf(calls[r])
                    /\ cacheOp.value = calls[r].value

\* A call resolved with a track list or a URL although both writes of its
\* setCache failed.
C13_Witness ==
  \E r \in Requests :
    /\ calls[r].pc = "done" /\ calls[r].outcome.state = "fulfilled"
    /\ Cacheable(calls[r].value)
    /\ cacheOp.op = "set" /\ cacheOp.key = KeyOf(calls[r])
    /\ cacheOp.log = << "setItem throws", "pruneCache", "setItem throws" >>
    /\ ~HasKey(localStorage, FullKey(KeyOf(calls[r])))

(***************************************************************************)
(* C14.  After one pruneCache pass, for any number and any order of        *)
(* entries in the store, no cache entry with now > expiry and no cache     *)
(* entry whose text fails to parse remains in the store.                   *)
(***************************************************************************)
C14_PruneLeavesNoStaleEntry ==
  JustPruned => \A i \in 1..Len(localStorage) : ~Stale(localStorage, i, now)

(***************************************************************************)
(* C15.  The facade never writes an empty result to the cache: setCache is *)
(* not run for an empty array, an empty object or null, no entry of the    *)
(* store holds one, and after a facade call that returned an empty result  *)
(* a read of its key misses and the next identical call starts a network   *)
(* attempt again.                                                          *)
(***************************************************************************)
C15_EmptyResultNeverCached ==
  /\ [](/\ \A v \in {JsNull, JsArray(<< >>), JsObject(NoProps)} : ~Cacheable(v)
        /\ cacheOp.op = "set" => ~EmptyResult(cacheOp.value)
        /\ \A i \in 1..Len(localStorage) :
             localStorage[i].item.form = "entry"
               => ~EmptyResult(localStorage[i].item.data)
        /\ \A r \in Requests :
             (calls[r].pc = "done" /\ calls[r].outcome.state = "fulfilled"
                /\ EmptyResult(calls[r].value))
               => ~JsTruthy(getCache(localStorage, KeyOf(calls[r]), now).value))
  /\ [][ \A r \in Requests :
           (/\ r > 1 /\ calls[r].pc = "idle" /\ calls'[r].pc # "idle"
            /\ calls[r - 1].pc = "done" /\ calls[r - 1].outcome.state = "fulfilled"
            /\ EmptyResult(calls[r - 1].value)
            /\ KeyOf(calls'[r]) = KeyOf(calls[r - 1]))
             => /\ calls'[r].pc \in {"sticky", "race2"}
                /\ \/ calls'[r].st.phase = "fetch"
                   \/ \E i \in PoolIdx : calls'[r].att[i] = "fetch" ]_vars

\* A playlist call got a payload without songs from the network and
\* resolved with the empty list; nothing was written under its key.
C15_Witness ==
  \E r \in Requests :
    /\ calls[r].pc = "done" /\ calls[r].ret.state = "fulfilled"
    /\ calls[r].value = JsArray(<< >>)
    /\ cacheOp.op = "get" /\ cacheOp.key = KeyOf(calls[r])
    /\ ~HasKey(localStorage, FullKey(KeyOf(calls[r])))

(***************************************************************************)
(* C16.  A cache entry is created only from a successful fetch: for every  *)
(* facade operation, getAudioUrl included, setCache is not run for a call  *)
(* whose fetchWithFailover failed on every endpoint.                       *)
(***************************************************************************)
C16_NoEntryFromFailedFetch ==
  \A r \in Requests :
    (calls[r].pc = "done" /\ calls[r].ret.state = "rejected")
      => ~(cacheOp.op = "set" /\ cacheOp.key = KeyOf(calls[r]))

(***************************************************************************)
(* C17 (as claimed).  After a facade call has resolved with a non-empty    *)
(* result obtained from the network, an identical call made before the     *)
(* TTL of its category has elapsed returns the same value from the cache,  *)
(* starts no network attempt, and leaves customApiBase and currentBestBase *)
(* unchanged.                                                              *)
(***************************************************************************)
C17_IdenticalCallHitsCache ==
  [][ \A r \in Requests :
        (/\ r > 1 /\ calls[r].pc = "idle" /\ calls'[r].pc # "idle"
         /\ calls[r - 1].pc = "done" /\ calls[r - 1].ret.state = "fulfilled"
         /\ ~EmptyResult(calls[r - 1].value)
         /\ << calls'[r].op, calls'[r].id, calls'[r].limit >>
              = << calls[r - 1].op, calls[r - 1].id, calls[r - 1].limit >>
         /\ cacheOp.op = "set" /\ now <= cacheOp.at + TtlOf(calls[r - 1].op))
          => /\ calls'[r].pc = "cached"
             /\ SameValue(calls'[r].value, calls[r - 1].value)
             /\ calls'[r].ov = NoAttempt /\ calls'[r].st = NoAttempt
             /\ \A i \in PoolIdx : calls'[r].att[i] = "none"
             /\ customApiBase' = customApiBase
             /\ currentBestBase' = currentBestBase ]_vars

(***************************************************************************)
(* C17 (amended).  The same, for a first call whose setCache stored the    *)
(* entry (the write was not dropped for lack of room): the identical call  *)
(* made up to write time + TTL returns the stored value as a reader sees   *)
(* it, starts no network attempt, and leaves customApiBase and             *)
(* currentBestBase unchanged.  When the write was dropped, the identical   *)
(* call misses and goes to the network.                                    *)
(***************************************************************************)
C17_StoredResultHitsCache ==
  [][ \A r \in Requests :
        (/\ r > 1 /\ calls[r].pc = "idle" /\ calls'[r].pc # "idle"
         /\ calls[r - 1].pc = "done" /\ calls[r - 1].ret.state = "fulfilled"
         /\ ~EmptyResult(calls[r - 1].value)
         /\ << calls'[r].op, calls'[r].id, calls'[r].limit >>
              = << calls[r - 1].op, calls[r - 1].id, calls[r - 1].limit >>
         /\ cacheOp.op = "set" /\ now <= cacheOp.at + TtlOf(calls[r - 1].op))
          => IF cacheOp.log[Len(cacheOp.log)] = "setItem"
               THEN /\ calls'[r].pc = "cached"
                    /\ SameValue(calls'[r].value, calls[r - 1].value)
                    /\ calls'[r].ov = NoAttempt /\ calls'[r].st = NoAttempt
                    /\ \A i \in PoolIdx : calls'[r].att[i] = "none"
                    /\ customApiBase' = customApiBase
                    /\ currentBestBase' = currentBestBase
               ELSE /\ calls'[r].pc \in {"sticky", "race2"}
                    /\ customApiBase' = customApiBase
                    /\ currentBestBase' = currentBestBase ]_vars

\* A call was served from the cache at the last instant of the lifetime of
\* an entry that an earlier call had stored from the response of the last
\* endpoint of the pool.
C17_Witness ==
  \E r \in Requests :
    /\ r > 1 /\ calls[r].pc = "cached"
    /\ \A i \in PoolIdx : calls[r].att[i] = "none"
    /\ \E w \in written :
         /\ w.key = KeyOf(calls[r]) /\ now = w.at + w.ttl /\ now > 0
         /\ SameValue(calls[r].value, w.value)
    /\ currentBestBase = API_BASES[PoolSize]

(***************************************************************************)
(* C18.  The cache key of a facade call is determined by the resource and  *)
(* all of its parameters: a call reads or writes the entry stored for a    *)
(* request only if it names the same resource with the same value of every *)
(* parameter (for fetchArtistSongsList: artistId, order and limit).        *)
(***************************************************************************)
C18_KeyNamesRequest ==
  \A r \in Requests :
    Live(r) =>
      \A w \in written :
        w.key = KeyOf(calls[r])
          => w.req = Resource(calls[r].op, calls[r].id, calls[r].limit)

(***************************************************************************)
(* Observers of the lyrics.                                                *)
(***************************************************************************)
\* The lines of a text that parseLrc keeps: those with a well-formed tag
\* and some text left when the first such tag is taken out
Kept(text) ==
  {n \in 1..Len(text) :
     /\ FirstMatch(text[n], 1) # 0
     /\ TextOfLine(text[n], FirstMatch(text[n], 1)) # << >>}

\* The number of kept lines among the first n lines of a text
KeptUpTo(text, n) == Cardinality({m \in Kept(text) : m <= n})

\* The value of a run of two or three digits, written out
TwoDigits(ds) == 10 * ds[1] + ds[2]
ThreeDigits(ds) == 100 * ds[1] + 10 * ds[2] + ds[3]

(***************************************************************************)
(* C19.  For every tag [mm:ss.ff] with a 2-digit fraction and every tag    *)
(* [mm:ss.fff] with a 3-digit fraction, parseLrc yields the start time     *)
(* mm*60000 + ss*1000 + frac_ms, where frac_ms is the fraction times 10    *)
(* for a 2-digit fraction and the fraction itself for a 3-digit fraction:  *)
(* each line that is kept gets the time of its first well-formed tag.      *)
(***************************************************************************)
C19_TagGivesStartTime ==
  lyrics # NotFetched =>
    /\ Len(lyrics) = Cardinality(Kept(lrc))
    /\ \A n \in Kept(lrc) :
         LET tag == lrc[n][FirstMatch(lrc[n], 1)]
             fracMs == IF Len(tag.ff) = 2 THEN TwoDigits(tag.ff) * 10
                       ELSE ThreeDigits(tag.ff)
         IN lyrics[KeptUpTo(lrc, n)].time
              = TwoDigits(tag.mm) * 60000 + TwoDigits(tag.ss) * 1000 + fracMs

\* A timeline with a line made from a 2-digit fraction ([01:59.50], 119500)
\* and a line made from a 3-digit fraction ([01:59.050], 119050).
C19_Witness ==
  /\ lyrics # NotFetched
  /\ \E i, j \in 1..Len(lyrics) : lyrics[i].time = 119500 /\ lyrics[j].time = 119050

(***************************************************************************)
(* C20.  In the timeline returned by fetchLyrics every line but the last   *)
(* has duration max(400, start(i+1) - start(i)), the last line has         *)
(* duration exactly 5000, and so every duration is at least 400, also for  *)
(* timestamps that are out of order or repeated.                           *)
(***************************************************************************)
C20_DurationsClamped ==
  lyrics # NotFetched =>
    \A i \in 1..Len(lyrics) :
      /\ i < Len(lyrics) =>
           lyrics[i].duration
             = (IF lyrics[i + 1].time - lyrics[i].time > 400
                  THEN lyrics[i + 1].time - lyrics[i].time ELSE 400)
      /\ i = Len(lyrics) => lyrics[i].duration = 5000
      /\ lyrics[i].duration >= 400

\* A timeline of three lines whose times go down and then repeat.
C20_Witness ==
  /\ lyrics # NotFetched /\ Len(lyrics) = 3
  /\ lyrics[2].time < lyrics[1].time /\ lyrics[3].time = lyrics[2].time
  /\ lyrics[1].duration = 400 /\ lyrics[2].duration = 400 /\ lyrics[3].duration = 5000

\* The translation lines that lie less than 500 ms from time t, by their
\* places in the parsed translation tr
Candidates(tr, t) ==
  {j \in 1..Len(tr) : tr[j].time - t < 500 /\ t - tr[j].time < 500}

(***************************************************************************)
(* C21.  An original line at time T' receives a translated text iff some   *)
(* translation line has a time T with |T - T'| < 500; when several         *)
(* translation lines qualify, the one that comes first in the order of the *)
(* translation file is attached; a line receives at most one translation   *)
(* (its trans field holds one text or none).                               *)
(***************************************************************************)
C21_TranslationAlignment ==
  lyrics # NotFetched =>
    LET tr == ParsedField(tlyric)
    IN \A i \in 1..Len(lyrics) :
         LET q == Candidates(tr, lyrics[i].time)
         IN /\ (lyrics[i].trans # << >>) <=> (q # {})
            /\ q # {} =>
                 lyrics[i].trans = tr[CHOOSE j \in q : \A k \in q : j <= k].text

\* A timeline with a line that two translation lines qualify for and that
\* got the first of them, a line that only the second one qualifies for,
\* and a line without translation.
C21_Witness ==
  /\ lyrics # NotFetched /\ tlyric = << Tra, Tri >>
  /\ \E i, j, k \in 1..Len(lyrics) :
       /\ lyrics[i].time = 500 /\ lyrics[i].trans = << Text("tra") >>
       /\ lyrics[j].time = 50 /\ lyrics[j].trans = << Text("tri") >>
       /\ lyrics[k].time > 1500 /\ lyrics[k].trans = << >>

(***************************************************************************)
(* C22.  parseLrc drops every line whose text is empty after the time tag  *)
(* is stripped and every line without a well-formed tag, and keeps the     *)
(* other lines in the order of the input; for an empty text, a text with   *)
(* no tagged line and a payload without lrc field the timeline is the      *)
(* empty sequence (and nothing is thrown: a timeline is returned).         *)
(***************************************************************************)
C22_ParseLrcDropsAndKeepsOrder ==
  lyrics # NotFetched =>
    /\ (lrc = NoLrcField \/ lrc = << >>
          \/ \A n \in 1..Len(lrc) : FirstMatch(lrc[n], 1) = 0) => lyrics = << >>
    /\ Len(lyrics) = Cardinality(Kept(lrc))
    /\ \A n \in Kept(lrc) :
         LET i == FirstMatch(lrc[n], 1)
         IN /\ lyrics[KeptUpTo(lrc, n)].text = TextOfLine(lrc[n], i)
            /\ lyrics[KeptUpTo(lrc, n)].time = TimeOfTag(lrc[n][i])

\* A text of a tagged line without text, a line without tag and a line that
\* is kept, in this order, has given a timeline of one line.
C22_Witness ==
  /\ lyrics # NotFetched /\ Len(lrc) = 3 /\ Len(lyrics) = 1
  /\ FirstMatch(lrc[1], 1) # 0 /\ TextOfLine(lrc[1], FirstMatch(lrc[1], 1)) = << >>
  /\ FirstMatch(lrc[2], 1) = 0
  /\ 3 \in Kept(lrc)

\* The album object normalizeTrack reads (part_001:275)
AlbumOf(s) ==
  IF s.al.there THEN s.al ELSE IF s.album.there THEN s.album ELSE Album(Undef, Undef)

\* The texts explored that are well-formed absolute URLs: a scheme, "://",
\* a host and a path
WellFormedAbsoluteUrl(v) ==
  /\ v.t = "string"
  /\ v.chunks \in { << "http", "://p/q.jpg" >>, << "http", "://x/y.jpg" >>,
                    << "http", "s://x/y.jpg" >>, << "ftp://x/y.jpg" >> }

(***************************************************************************)
(* C23.  normalizeTrack resolves the cover URL of the album as: picUrl     *)
(* when it is present and not empty; else pic_str if and only if pic_str   *)
(* is itself a well-formed absolute URL; else the empty string.  So        *)
(* {picUrl: "", pic_str: "http://x/y.jpg"} gives "http://x/y.jpg" and      *)
(* {picUrl: "", pic_str: "12345"} gives "", also when the album object is  *)
(* missing.                                                                *)
(***************************************************************************)
C23_CoverUrlResolution ==
  track # NotNormalized =>
    LET al == AlbumOf(song)
    IN track.picUrl =
         (IF al.picUrl # Undef /\ al.picUrl # Str(<< >>) THEN al.picUrl
          ELSE IF WellFormedAbsoluteUrl(al.pic_str) THEN al.pic_str
          ELSE Str(<< >>))

(***************************************************************************)
(* C24.  fetchLyrics and fetchComments never reject: a call that went to   *)
(* the network resolves, and when every endpoint failed or the payload     *)
(* lacks the expected fields it resolves with the empty collection.        *)
(***************************************************************************)
C24_LyricsAndCommentsNeverReject ==
  \A r \in Requests :
    (calls[r].pc = "done" /\ calls[r].op \in {"fetchLyrics", "fetchComments"}) =>
      /\ calls[r].outcome.state = "fulfilled"
      /\ calls[r].value.t = "array"
      /\ calls[r].ret.state = "rejected" => calls[r].value = JsArray(<< >>)
      /\ (calls[r].ret.state = "fulfilled"
            /\ ~(ServerHasItems(calls[r].id) /\ calls[r].ret.code \in {NoCode, "200"}))
           => calls[r].value = JsArray(<< >>)

\* A call of fetchLyrics whose attempts failed on every endpoint of the pool
\* has resolved with the empty list.
C24_Witness ==
  \E r \in Requests :
    /\ calls[r].pc = "done" /\ calls[r].op = "fetchLyrics"
    /\ AllFailed(calls[r]) /\ calls[r].ret.state = "rejected"
    /\ calls[r].outcome.state = "fulfilled" /\ calls[r].value = JsArray(<< >>)

\* The number of places of sequence a that hold e
CountOf(a, e) == Cardinality({i \in 1..Len(a) : a[i] = e})

(***************************************************************************)
(* C26.  The endpoint pool API_BASES is a permutation of RAW_API_BASES     *)
(* (the same members with the same multiplicities, hence not empty); it is *)
(* computed once, when the module is loaded, and no request, no call of    *)
(* setApiSource and no cache operation modifies it afterwards.             *)
(***************************************************************************)
C26_PoolIsFixedPermutation ==
  /\ [](Loaded =>
          /\ Len(array) = PoolSize /\ Len(array) > 0
          /\ \A k \in 1..PoolSize :
               CountOf(array, RAW_API_BASES[k])
                 = CountOf(SubSeq(RAW_API_BASES, 1, PoolSize), RAW_API_BASES[k]))
  /\ [][Loaded => (array' = array /\ idx' = idx)]_vars

\* The pool came out of shuffle in the reverse order, and then an override
\* was set and a facade call went to the network and wrote its cache entry.
C26_Witness ==
  /\ Loaded
  /\ \A k \in 1..PoolSize : array[k] = RAW_API_BASES[PoolSize + 1 - k]
  /\ customApiBase = CustomUrl
  /\ \E r \in Requests : calls[r].pc = "done" /\ cacheOp.op = "set"
  /\ localStorage # << >>

\* The songs /artist/songs gives for artist id lack cover art (see
\* ServerHasItems)
SongsLackCover(id) == id = "3"

\* The keys of the entries of a store
KeysOf(store) == {store[i].key : i \in 1..Len(store)}

\* The composite key of fetchArtistSongsList(id, 'time', ...), as stored
ArtistSongsKey(id) == << "vinyl_cache_", "artist_songs_" \o id \o "_time" >>

C27_LastWriterWins ==
  [][ \A r, q \in Requests :
        ( /\ r # q
          /\ calls[q].pc = "done" /\ calls[q].ret.state = "fulfilled"
          /\ calls[q].st.phase = "none" /\ calls[r].st.phase = "none"
          /\ calls[q].ov.phase = "none" /\ calls[r].ov.phase = "none"
          /\ calls[r].ret.state = "pending" /\ calls'[r].ret.state = "fulfilled"
          /\ calls'[r].ret.base # calls[q].ret.base )
        => currentBestBase' = calls'[r].ret.base ]_vars

\* What a read of key k (as stored) gives at time t: the data of an entry
\* that parses and has not expired, and null otherwise
Visible(store, k, t) ==
  LET item == GetItem(store, k)
  IN IF item.form = "entry" /\ t <= item.expiry THEN item.data ELSE JsNull

\* The entry of every key that was written holds the value of the last
\* write of the key that was stored.
LastWriteStays ==
  \A w \in written :
    HasKey(localStorage, FullKey(w.key)) =>
      GetItem(localStorage, FullKey(w.key)).data = JsonRoundTrip(w.value)

(***************************************************************************)
(* C28 (as claimed).  Cache operations on different keys are independent:  *)
(* a get, a put or an expiry removal of key k never changes the entry of a *)
(* key k' # k; and when two overlapping facade calls for the same key both *)
(* miss and both write, the entry finally holds the value of the write     *)
(* that happened last.                                                     *)
(***************************************************************************)
C28_OtherEntriesUntouched ==
  /\ [][ \A k \in KeysOf(localStorage) \cup KeysOf(localStorage') :
          (localStorage' # localStorage /\ k # FullKey(cacheOp'.key))
            => GetItem(localStorage', k) = GetItem(localStorage, k) ]_vars
  /\ []LastWriteStays

(***************************************************************************)
(* C28 (amended).  A get, a put or an expiry removal of key k never        *)
(* changes what a read of another key k' returns: the only entries of      *)
(* other keys that a put removes (by pruneCache, after its first write     *)
(* failed) are expired or unparsable, and read as absent before and after. *)
(* When two overlapping facade calls for the same key both miss and both   *)
(* write, the entry finally holds the value of the write that happened     *)
(* last.                                                                   *)
(***************************************************************************)
C28_OtherReadsUntouched ==
  /\ [][ \A k \in KeysOf(localStorage) \cup KeysOf(localStorage') :
          (localStorage' # localStorage /\ k # FullKey(cacheOp'.key))
            => Visible(localStorage', k, now') = Visible(localStorage, k, now) ]_vars
  /\ []LastWriteStays

\* Two calls of getAudioUrl for the same track both missed and both went to
\* the network; call 2 wrote its value first, call 1 wrote another value
\* over it, and the entry holds the value of call 1.
C28_Witness ==
  /\ calls[1].op = "getAudioUrl" /\ calls[2].op = "getAudioUrl"
  /\ calls[1].pc = "done" /\ calls[2].pc = "done"
  /\ calls[1].value # calls[2].value
  /\ cacheOp.op = "set" /\ cacheOp.value = calls[1].value
  /\ cacheOp.found.form = "entry"
  /\ cacheOp.found.data = JsonRoundTrip(calls[2].value)
  /\ GetItem(localStorage, FullKey("audio_url_1")).data = JsonRoundTrip(calls[1].value)

(***************************************************************************)
(* C29.  Duplicate calls of getAudioUrl for the same track id within the   *)
(* URL lifetime, the second starting after the first has resolved or while *)
(* it is still in flight, are absorbed by the cache: at most one of them   *)
(* reaches the network.  (The clock stands still in these runs.)           *)
(***************************************************************************)
C29_DuplicateUrlCallsAbsorbed ==
  \A id \in {"1", "2"} :
    Cardinality({r \in Requests :
                   /\ calls[r].op = "getAudioUrl" /\ calls[r].id = id
                   /\ calls[r].pc \notin {"idle", "cached"}}) <= 1

(***************************************************************************)
(* C30.  Under any interleaving of concurrent requests with no override    *)
(* active, the sticky-best is cleared only in consequence of a failed      *)
(* attempt on the endpoint it names at the moment of clearing: the failure *)
(* of an endpoint S that was sticky before never clears another endpoint T *)
(* that a request has stored as sticky-best in the meantime.               *)
(***************************************************************************)
C30_ClearedOnlyByOwnFailure ==
  [][ (Truthy(currentBestBase) /\ ~Truthy(currentBestBase') /\ ~Truthy(customApiBase))
        => \E r \in Requests :
             /\ calls[r].st.phase \in {"fetch", "body"}
             /\ calls'[r].st.phase = "fail"
             /\ calls[r].st.base = currentBestBase ]_vars

(***************************************************************************)
(* Attempts that outlive their request.                                    *)
(***************************************************************************)
\* A step of an attempt of request r after r has resolved or rejected: the
\* record of r changes while r stays settled.
LateStep(r) ==
  /\ calls[r].pc \in {"done", "retired"}
  /\ calls'[r].pc = calls[r].pc
  /\ calls'[r] # calls[r]

\* C31: once a request has resolved or rejected, the attempts of that
\* request that are still in flight have no further effect: a losing attempt
\* that succeeds later changes neither the result of the request nor the
\* override or the sticky-best (in particular it does not install itself as
\* sticky-best after a later request has cleared the sticky-best).
C31_LateAttemptHasNoEffect ==
  [][\A r \in Requests :
       LateStep(r) =>
         /\ calls'[r].ret = calls[r].ret
         /\ calls'[r].outcome = calls[r].outcome
         /\ customApiBase' = customApiBase
         /\ currentBestBase' = currentBestBase]_vars

(***************************************************************************)
(* The values the sticky-best takes.                                       *)
(***************************************************************************)
\* The step is the arrival of a successful response (transport ok, code
\* absent or 200) of an attempt on pool endpoint b.
SuccessfulResponseOf(b) ==
  \E r \in Requests, i \in PoolIdx, code \in Codes :
    /\ ~CodeIsError(code)
    /\ array[i] = b
    /\ RaceJson(r, i, code)

\* C32: under any interleaving of requests and setApiSource calls the
\* sticky-best is empty, or equal to the current override, or an endpoint of
\* the pool that has returned a successful response (transport ok and code
\* absent or 200) in an earlier attempt.  It is empty at load time, and the
\* property is stated on the steps that write the override or the
\* sticky-best: the sticky-best they leave is empty, or the override they
\* leave, or the endpoint whose successful response has just arrived.
C32_StickyIsEmptyOverrideOrProven ==
  /\ ~Truthy(currentBestBase)
  /\ [][(currentBestBase' # currentBestBase \/ customApiBase' # customApiBase) =>
          \/ ~Truthy(currentBestBase')
          \/ currentBestBase' = customApiBase'
          \/ SuccessfulResponseOf(currentBestBase')]_vars

\* C33: whenever a non-empty override is set, the sticky-best equals the
\* override: setApiSource(url) writes url to both, and while the override is
\* set no step of a request (a sticky failure, a race success, the late
\* response of a request started before setApiSource) changes the
\* sticky-best.
C33_StickyFollowsOverride ==
  /\ Truthy(customApiBase) => currentBestBase = customApiBase
  /\ [][(Truthy(customApiBase) /\ customApiBase' = customApiBase) =>
          currentBestBase' = currentBestBase]_vars

\* An override is set, and of one request the override attempt and the
\* sticky attempt on the override have failed and a race attempt has
\* succeeded.
C33_Witness ==
  /\ customApiBase = CustomUrl
  /\ currentBestBase = CustomUrl
  /\ \E r \in Requests :
       /\ calls[r].ov = [base |-> CustomUrl, phase |-> "fail"]
       /\ calls[r].st = [base |-> CustomUrl, phase |-> "fail"]
       /\ \E i \in PoolIdx : calls[r].att[i] = "ok"

(***************************************************************************)
(* The endpoint shown as the current one.                                  *)
(***************************************************************************)
\* C34: getCurrentApiSource returns the override when one is set, otherwise
\* the sticky-best when one is set, otherwise the first endpoint of the
\* shuffled pool; it never returns an empty value and never changes the
\* override, the sticky-best or the pool.
C34_CurrentApiSource ==
  [][source' # source =>
       /\ Truthy(customApiBase) => source' = customApiBase
       /\ (~Truthy(customApiBase) /\ Truthy(currentBestBase)) => source' = currentBestBase
       /\ (~Truthy(customApiBase) /\ ~Truthy(currentBestBase)) => source' = array[1]
       /\ Truthy(source')
       /\ source' \in Pool \cup {CustomUrl}
       /\ UNCHANGED << customApiBase, currentBestBase, array >>]_vars

\* The three cases have been asked for: the override was returned, and the
\* sticky-best, and, after setApiSource(""), the first endpoint of a pool
\* that shuffle has reordered.
C34_Witness ==
  /\ customApiBase = "" /\ currentBestBase = ""
  /\ array[1] # RAW_API_BASES[1]
  /\ source = array[1]

(***************************************************************************)
(* What pruneCache leaves alone.                                           *)
(***************************************************************************)
\* The entry is one pruneCache is to leave at time t: a key of another
\* script, or a cache entry that parses and has t <= expiry.
Fresh(e, t) ==
  \/ ~StartsWithPrefix(e.key)
  \/ (~ParseFails(e.item) /\ t <= e.item.expiry)

\* The step has run pruneCache, on its own or from setCache (part_001:69).
PruneCacheRan ==
  \E i \in 1..Len(cacheOp'.log) : cacheOp'.log[i] = "pruneCache"

\* C35: pruneCache leaves unchanged every storage key that does not start
\* with the cache prefix and every cache entry that parses and has
\* now <= expiry, and it never throws to its caller.
C35_PruneLeavesOthersAlone ==
  [][PruneCacheRan =>
       /\ \A i \in 1..Len(localStorage) :
            Fresh(localStorage[i], now) =>
              \E j \in 1..Len(localStorage') : localStorage'[j] = localStorage[i]
       /\ ~cacheOp'.threw]_vars

\* pruneCache has just run at a time when the URL entry written earlier had
\* expired: that entry is gone, and the key of the other script and the
\* playlist entry, which is still valid, are in the store.
C35_Witness ==
  /\ cacheOp.op = "prune" /\ cacheOp.at = now /\ now > TTL_CONFIG.URL
  /\ HasKey(localStorage, ForeignKey)
  /\ \E i \in 1..Len(localStorage) :
       /\ localStorage[i].key = FullKey(CacheKey("fetchPlaylist", "1", NoLimit))
       /\ localStorage[i].item.form = "entry"
       /\ now <= localStorage[i].item.expiry
  /\ ~HasKey(localStorage, FullKey(CacheKey("getAudioUrl", "1", NoLimit)))
  /\ \E w \in written : w.key = CacheKey("getAudioUrl", "1", NoLimit)

(***************************************************************************)
(* The player: responses that arrive after the track has changed.          *)
(***************************************************************************)
\* C36: a lyrics, comments or audio-URL response requested for track X is
\* applied to the player state only if X is the current track when the
\* response arrives: whatever the order of track changes and arrivals, a
\* response of a track selected earlier never overwrites the lyrics, the
\* comments or the audio source of the current track.
C36_StaleResponseNeverApplied ==
  [][/\ (uiLyrics' # uiLyrics /\ uiLyrics' # 0) => uiLyrics' = currentTrack
     /\ (uiComments' # uiComments /\ uiComments' # 0) => uiComments' = currentTrack
     /\ (audioSrc' # audioSrc /\ audioSrc' # 0) => audioSrc' = currentTrack]_vars

\* The lyrics of a track selected earlier have arrived after the change of
\* track and were dropped; the lyrics and the source shown are those of the
\* current track.
C36_Witness ==
  /\ currentTrack # 0
  /\ uiLyrics = currentTrack
  /\ audioSrc = currentTrack
  /\ \E e \in effects :
       ~e.isMounted /\ e.id # currentTrack /\ e.url = "applied" /\ e.lyrics = "discarded"

(***************************************************************************)
(* The player: the index of the current track.                             *)
(***************************************************************************)
\* C37: after any sequence of playNext, playPrev, queue clicks, playlist
\* reloads and delayed automatic error skips, currentIndex is in
\* 0 .. playlist.length - 1 whenever the playlist is non-empty; playNext
\* from the last track wraps to index 0 and playPrev from index 0 wraps to
\* the last track.
C37_IndexInRange ==
  /\ [](Len(playlist) > 0 => currentIndex \in 0..(Len(playlist) - 1))
  /\ [][(PlayNext /\ currentIndex = Len(playlist) - 1) => currentIndex' = 0]_vars
  /\ [][(PlayPrev /\ currentIndex = 0) => currentIndex' = Len(playlist) - 1]_vars

(***************************************************************************)
(* The player: automatic skips on playback errors.                         *)
(***************************************************************************)
\* The step is a playback error reaching handleAudioError, or
\* handlePlayError with a message it recognises.
PlaybackError ==
  \/ HandleAudioError
  \/ TogglePlayFails(TRUE)
  \/ \E e \in effects : PlayRejects(e)

\* C38: automatic skipping on playback errors is bounded.  Between two
\* resets of the error counter (track ended, successful manual play, manual
\* previous) at most 3 automatic skips to the next track are scheduled, and
\* the error that follows the third skip stops playback (isPlaying becomes
\* false) instead of skipping again.  Every skip that is scheduled adds one
\* to errorCount, and nothing but the resets lowers it; so errorCount is the
\* number of skips scheduled since the last reset.
C38_SkipsAreBounded ==
  /\ [](errorCount <= 3)
  /\ [][(PlaybackError /\ errorCount >= 3) =>
          (~isPlaying' /\ timers' = timers /\ errorCount' = errorCount)]_vars
====
